---- MODULE Spec2Model ----
(***************************************************************************)
(* A model of the Gem-Assist web fragments: the control-center React app   *)
(* (environment configuration, router, sign-in callback page, Viewer page) *)
(* and the static chat widget; and of the repository's scripts: the push  *)
(* script with its connector token, deploy.sh, the n8n client and the      *)
(* analytics loader.                                                       *)
(*                                                                         *)
(* JavaScript strings are sequences of one-character strings, so that the  *)
(* string functions of the code (trim, replace, startsWith, template       *)
(* literals) are computed character by character.  The JavaScript value    *)
(* undefined is the value Undefined, which is no string.                   *)
(***************************************************************************)
EXTENDS Integers, Sequences, FiniteSets, TLC

VARIABLES
  importMetaEnv,  \* import.meta.env: key -> string or Undefined
  boot,           \* "loading" | "failed" | "running": module evaluation of the app
  startupError,   \* message of the error thrown while the modules load
  env,            \* the exported env object of config/env
  authClient,     \* the BrowserAuthorizationClient of auth/oidc
  location,       \* the router's current pathname
  cb,             \* the SigninCallback component instances, one per mount
  calls,          \* the invocations of handleSigninCallback, in order
  viewer,         \* the Viewer component instance
  view,           \* what the router renders: shell or not, page, highlighted nav items
  authCalls,      \* the invocations of signIn, signOut and handleSigninCallback, in order
  lastEvent,      \* the event handled by the last step
  inputValue,     \* chat: inputEl.value
  chatbox,        \* chat: the <p> children of chatboxEl, in order
  sendBtn,        \* chat: sendBtn.disabled and sendBtn.textContent
  sends,          \* chat: the invocations of sendMessage that got past its guards
  requests,       \* chat: the requests handed to fetch, in order
  dom,            \* chat: which of the three elements getElementById found
  chatEvent,      \* chat: the event handled by the last step
  connectionSettings, \* push: the module variable connectionSettings
  clock,          \* push: Date.now(), in milliseconds
  processEnv,     \* push: process.env.REPL_IDENTITY and process.env.WEB_REPL_RENEWAL
  pushPc,         \* push: the position of pushToGitHub
  tokenCalls,     \* push: the invocations of getAccessToken, in order
  console,        \* push: the console.error lines and the two success lines
  exitCode,       \* push: the status process.exit was called with
  gitPushes,      \* push: the outcomes of the git push commands run
  deployPc,       \* deploy.sh: the position of the script
  files,          \* deploy.sh: whether app.py and ~/.ssh/github_key exist
  CURRENT_BRANCH, \* deploy.sh: the shell variable CURRENT_BRANCH
  stdout,         \* deploy.sh: the lines the script has echoed
  exitStatus,     \* deploy.sh: the status the script exited with
  pushes,         \* deploy.sh: the git push commands run, with their outcomes
  n8n,            \* n8n client: the exported instance n8n
  workflowCalls,  \* n8n client: the calls of the instance's methods, in order
  posts,          \* n8n client: the requests handed to this.client.post, in order
  readyState,     \* analytics: document.readyState
  contentLoaded,  \* analytics: DOMContentLoaded has been dispatched
  scriptRan,      \* analytics: the script has been evaluated in this document
  listeners,      \* analytics: the DOMContentLoaded listeners of the document
  initCalls,      \* analytics: the calls of initVercelAnalytics, counted per page load
  imports,        \* analytics: the dynamic imports of this document
  pageConsole,    \* analytics: the lines written to the console of this document
  pageErrors      \* analytics: the errors and unhandled rejections of this document

appVars == <<importMetaEnv, boot, startupError, env, authClient, location, cb, calls, viewer, view,
             authCalls, lastEvent>>
chatVars == <<inputValue, chatbox, sendBtn, sends, requests, dom, chatEvent>>
pushVars == <<connectionSettings, clock, processEnv, pushPc, tokenCalls, console, exitCode,
              gitPushes>>
deployVars == <<deployPc, files, CURRENT_BRANCH, stdout, exitStatus, pushes>>
n8nVars == <<n8n, workflowCalls, posts>>
analyticsVars == <<readyState, contentLoaded, scriptRan, listeners, initCalls, imports,
                   pageConsole, pageErrors>>
toolVars == <<pushVars, deployVars, n8nVars, analyticsVars>>
vars == <<importMetaEnv, boot, startupError, env, authClient, location, cb, calls, viewer, view,
          authCalls, lastEvent, inputValue, chatbox, sendBtn, sends, requests, dom, chatEvent,
          connectionSettings, clock, processEnv, pushPc, tokenCalls, console, exitCode,
          gitPushes, deployPc, files, CURRENT_BRANCH, stdout, exitStatus, pushes,
          n8n, workflowCalls, posts, readyState, contentLoaded, scriptRan, listeners,
          initCalls, imports, pageConsole, pageErrors>>

----------------------------------------------------------------------------
(* Bounds of the model *)

\* how many times the callback page is mounted in one run
MaxMounts == 2

----------------------------------------------------------------------------
(* JavaScript values and string functions *)

Undefined == <<"undefined">>
\* null and a number, the other values that are no strings
JsNull == <<"null">>
JsNumber == <<"number">>

IsString(v) == v \notin {Undefined, JsNull, JsNumber}

\* String.prototype.startsWith
StartsWith(s, p) == Len(s) >= Len(p) /\ SubSeq(s, 1, Len(p)) = p

\* the conversion of a value inside a template literal
ToStr(v) == IF v = Undefined THEN <<"u","n","d","e","f","i","n","e","d">> (* undefined *) ELSE v

\* !v for a string or undefined
Falsy(v) == v = Undefined \/ v = <<>>

\* a || b
LogicalOr(a, b) == IF Falsy(a) THEN b ELSE a

\* a ?? b
Nullish(a, b) == IF a = Undefined THEN b ELSE a

Whitespace == {" ", "\t", "\n"}

RECURSIVE trimStart(_)
trimStart(s) ==
  IF s # <<>> /\ Head(s) \in Whitespace THEN trimStart(Tail(s)) ELSE s

RECURSIVE trimEnd(_)
trimEnd(s) ==
  IF s # <<>> /\ s[Len(s)] \in Whitespace THEN trimEnd(SubSeq(s, 1, Len(s) - 1)) ELSE s

\* the value as it is, not trimmed
trimNone(s) == s

\* String.prototype.trimStart in its place
trimStartOnly(s) == trimStart(s)

\* String.prototype.trim
trim(s) == trimEnd(trimStart(s))

RECURSIVE Concat(_)
\* the concatenation of a sequence of strings
Concat(ss) ==
  IF Len(ss) = 0 THEN <<>>
  ELSE IF Len(ss) = 1 THEN ss[1]
  ELSE LET h == Len(ss) \div 2
       IN  Concat(SubSeq(ss, 1, h)) \o Concat(SubSeq(ss, h + 1, Len(ss)))

\* str.replace(/c/g, rep) for a one-character pattern c
ReplaceAll(s, c, rep) ==
  Concat([k \in 1..Len(s) |-> IF s[k] = c THEN rep ELSE <<s[k]>>])

----------------------------------------------------------------------------
(* config/env: the environment configuration, built once at startup *)

VITE_ITWIN_CLIENT_ID == <<"V","I","T","E","_","I","T","W","I","N","_","C","L","I","E","N","T","_","I","D">> (* VITE_ITWIN_CLIENT_ID *)
VITE_ITWIN_REDIRECT_URI == <<"V","I","T","E","_","I","T","W","I","N","_","R","E","D","I","R","E","C","T","_","U","R","I">> (* VITE_ITWIN_REDIRECT_URI *)
VITE_ITWIN_POST_SIGNOUT_REDIRECT_URI == <<"V","I","T","E","_","I","T","W","I","N","_","P","O","S","T","_","S","I","G","N","O","U","T","_","R","E","D","I","R","E","C","T","_","U","R","I">> (* VITE_ITWIN_POST_SIGNOUT_REDIRECT_URI *)
VITE_ITWIN_SCOPE == <<"V","I","T","E","_","I","T","W","I","N","_","S","C","O","P","E">> (* VITE_ITWIN_SCOPE *)
VITE_ITWIN_AUTHORITY == <<"V","I","T","E","_","I","T","W","I","N","_","A","U","T","H","O","R","I","T","Y">> (* VITE_ITWIN_AUTHORITY *)
VITE_DEMO_ITWIN_ID == <<"V","I","T","E","_","D","E","M","O","_","I","T","W","I","N","_","I","D">> (* VITE_DEMO_ITWIN_ID *)
VITE_DEMO_IMODEL_ID == <<"V","I","T","E","_","D","E","M","O","_","I","M","O","D","E","L","_","I","D">> (* VITE_DEMO_IMODEL_ID *)
VITE_MARKETING_BASE_URL == <<"V","I","T","E","_","M","A","R","K","E","T","I","N","G","_","B","A","S","E","_","U","R","L">> (* VITE_MARKETING_BASE_URL *)

\* the keys env reads through requireEnv, in the order the object literal reads them
RequiredKeys == <<VITE_ITWIN_CLIENT_ID, VITE_ITWIN_REDIRECT_URI,
                  VITE_ITWIN_POST_SIGNOUT_REDIRECT_URI>>

OptionalKeys == {VITE_ITWIN_SCOPE, VITE_ITWIN_AUTHORITY, VITE_DEMO_ITWIN_ID,
                 VITE_DEMO_IMODEL_ID, VITE_MARKETING_BASE_URL}

EnvKeys == {RequiredKeys[i] : i \in 1..Len(RequiredKeys)} \cup OptionalKeys

MissingPrefix == <<"M","i","s","s","i","n","g"," ","r","e","q","u","i","r","e","d"," ","e","n","v"," ","v","a","r",":"," ">> (* Missing required env var:  *)

NoError == Undefined

\* the result of evaluating an expression: a value, or a thrown Error with a message
Returned(v) == [threw |-> FALSE, value |-> v, message |-> NoError]
Thrown(m) == [threw |-> TRUE, value |-> Undefined, message |-> m]

\* as requireEnv, the message naming the first required key whatever the name
requireEnvWrongName(meta, name) ==
  IF Falsy(meta[name]) THEN Thrown(MissingPrefix \o RequiredKeys[1])
  ELSE Returned(meta[name])

requireEnv(meta, name) ==
  IF Falsy(meta[name]) THEN Thrown(MissingPrefix \o name)
  ELSE Returned(meta[name])

NoEnv == [absent |-> TRUE]

\* the object literal of `export const env`: the properties are evaluated in
\* source order and the first throw ends the evaluation of the module
BuildEnv(meta) ==
  LET r1 == requireEnv(meta, VITE_ITWIN_CLIENT_ID)
      r2 == requireEnv(meta, VITE_ITWIN_REDIRECT_URI)
      r3 == requireEnv(meta, VITE_ITWIN_POST_SIGNOUT_REDIRECT_URI)
  IN  IF r1.threw THEN r1
      ELSE IF r2.threw THEN r2
      ELSE IF r3.threw THEN r3
      ELSE Returned([itwinClientId |-> r1.value,
                     redirectUri |-> r2.value,
                     postSignoutRedirectUri |-> r3.value,
                     scope |-> Nullish(meta[VITE_ITWIN_SCOPE], <<"i","t","w","i","n","-","p","l","a","t","f","o","r","m">> (* itwin-platform *)),
                     authority |-> Nullish(meta[VITE_ITWIN_AUTHORITY],
                                           <<"h","t","t","p","s",":","/","/","i","m","s",".","b","e","n","t","l","e","y",".","c","o","m">> (* https://ims.bentley.com *)),
                     demoITwinId |-> meta[VITE_DEMO_ITWIN_ID],
                     demoIModelId |-> meta[VITE_DEMO_IMODEL_ID],
                     marketingBaseUrl |-> Nullish(meta[VITE_MARKETING_BASE_URL], <<"/">>)])

\* the values the environment may give a key
RequiredValues(k) == {Undefined, <<>>, <<"v">>}
ScopeValues == {Undefined, <<>>, <<"o","p","e","n","i","d">> (* openid *)}
AuthorityValues == {Undefined, <<>>, <<"h","t","t","p","s",":","/","/","i","d","p">> (* https://idp *)}
DemoValues == {Undefined, <<"d">>}
BaseUrlValues == {Undefined, <<>>, <<"/">>, <<"h">>, <<"h","/">>, <<"h","/","/">>, <<"h","/","a","/">> (* h/a/ *)}

MetaEnv(c, r, p, s, a, t, m, b) ==
  [k \in EnvKeys |->
     CASE k = VITE_ITWIN_CLIENT_ID -> c
       [] k = VITE_ITWIN_REDIRECT_URI -> r
       [] k = VITE_ITWIN_POST_SIGNOUT_REDIRECT_URI -> p
       [] k = VITE_ITWIN_SCOPE -> s
       [] k = VITE_ITWIN_AUTHORITY -> a
       [] k = VITE_DEMO_ITWIN_ID -> t
       [] k = VITE_DEMO_IMODEL_ID -> m
       [] OTHER -> b]

\* every environment of the bounded value sets
ImportMetaEnvs ==
  {MetaEnv(c, r, p, s, a, t, m, b) :
     c \in RequiredValues(VITE_ITWIN_CLIENT_ID),
     r \in RequiredValues(VITE_ITWIN_REDIRECT_URI),
     p \in RequiredValues(VITE_ITWIN_POST_SIGNOUT_REDIRECT_URI),
     s \in ScopeValues, a \in AuthorityValues,
     t \in DemoValues, m \in DemoValues, b \in BaseUrlValues}

\* the environments the page flows are explored under: only the required keys
\* and the marketing base URL vary
AppMetaEnvs ==
  {e \in ImportMetaEnvs :
     /\ e[VITE_ITWIN_SCOPE] = Undefined /\ e[VITE_ITWIN_AUTHORITY] = Undefined
     /\ e[VITE_DEMO_ITWIN_ID] = Undefined /\ e[VITE_DEMO_IMODEL_ID] = Undefined}

----------------------------------------------------------------------------
(* auth/oidc: the auth client, constructed from env when the module loads *)

NoClient == [absent |-> TRUE]

NewAuthClient(e) ==
  [clientId |-> e.itwinClientId,
   redirectUri |-> e.redirectUri,
   postSignoutRedirectUri |-> e.postSignoutRedirectUri,
   scope |-> e.scope,
   authority |-> e.authority,
   responseType |-> <<"c","o","d","e">> (* code *)]

\* the outcome of a promise: pending, or settled as "resolve" or as "reject"
\* with the message of the error
Pending == [kind |-> "pending", message |-> Undefined]

\* a call of one of the wrappers, up to its `await authClient.<fn>()`: the
\* client's method of the same name has been invoked; `from` is the caller
callWrapper(fn, from) ==
  [fn |-> fn, from |-> from, invoked |-> <<fn>>, client |-> Pending, result |-> Pending]

\* a wrapper with a catch block that swallows the client's error
signInSwallows(clientOutcome) == [kind |-> "resolve", message |-> Undefined]

\* auth/oidc signIn: awaits the client's promise and ends as it ends
signIn(clientOutcome) == clientOutcome

\* auth/oidc signOut
signOut(clientOutcome) == clientOutcome

\* auth/oidc handleSigninCallback
handleSigninCallback(clientOutcome) == clientOutcome

\* the client's promise of wrapper call w settles with outcome o: the await
\* ends, and the wrapper's own promise with it
settleWrapper(w, o) ==
  [w EXCEPT !.client = o,
            !.result = CASE w.fn = <<"s","i","g","n","I","n">> (* signIn *) -> signIn(o)
                         [] w.fn = <<"s","i","g","n","O","u","t">> (* signOut *) -> signOut(o)
                         [] OTHER -> handleSigninCallback(o)]

----------------------------------------------------------------------------
(* router: the route table *)

SigninCallbackPath == <<"/","s","i","g","n","i","n","-","c","a","l","l","b","a","c","k">> (* /signin-callback *)
AppPath == <<"/","a","p","p">> (* /app *)
ViewerPath == <<"/","a","p","p","/","v","i","e","w","e","r">> (* /app/viewer *)
ActivityPath == <<"/","a","p","p","/","a","c","t","i","v","i","t","y">> (* /app/activity *)
SettingsPath == <<"/","a","p","p","/","s","e","t","t","i","n","g","s">> (* /app/settings *)

\* the pathnames the browser is sent to in the model
Paths == {<<"/">>, SigninCallbackPath, AppPath, ViewerPath, ActivityPath, SettingsPath,
          <<"/","n","o","p","e">> (* /nope *)}

\* the pathnames the route table is probed with
RouterPaths == Paths \cup
  {<<"/","a","p","p","/">> (* /app/ *), <<"/","A","P","P">> (* /APP *), <<"/","A","p","p","/","V","i","e","w","e","r">> (* /App/Viewer *), <<"/","a","p","p","/","v","i","e","w","e","r","/","/">> (* /app/viewer// *), <<"/","a","p","p","/","v","i","e","w","e","r","/","x">> (* /app/viewer/x *), <<"/","a","p","p","/","n","o","p","e">> (* /app/nope *),
   <<"/","a","p","p","l","i","c","a","t","i","o","n">> (* /application *), <<"/","s","i","g","n","i","n","-","c","a","l","l","b","a","c","k","/">> (* /signin-callback/ *), <<"/","S","i","g","n","i","n","-","C","a","l","l","b","a","c","k">> (* /Signin-Callback *), <<"/","/","a","p","p">> (* //app *), <<"/","a","p","p","/","/","v","i","e","w","e","r">> (* /app//viewer *),
   <<"/","v","i","e","w","e","r">> (* /viewer *), <<"/","a","p","p","/","a","c","t","i","v","i","t","y","/">> (* /app/activity/ *), <<"/","a","p","p","/","S","E","T","T","I","N","G","S">> (* /app/SETTINGS *)}

UpperCase == <<"A", "B", "C", "D", "E", "F", "G", "H", "I", "J", "K", "L", "M",
               "N", "O", "P", "Q", "R", "S", "T", "U", "V", "W", "X", "Y", "Z">>
LowerCase == <<"a", "b", "c", "d", "e", "f", "g", "h", "i", "j", "k", "l", "m",
               "n", "o", "p", "q", "r", "s", "t", "u", "v", "w", "x", "y", "z">>

\* s as a pattern without `caseSensitive` reads it: letters compare by their lower case
IgnoreCase(s) ==
  [k \in DOMAIN s |->
     IF s[k] \in {UpperCase[i] : i \in DOMAIN UpperCase}
     THEN LowerCase[CHOOSE i \in DOMAIN UpperCase : UpperCase[i] = s[k]]
     ELSE s[k]]

RECURSIVE StripEndSlashes(_)
StripEndSlashes(s) ==
  IF s # <<>> /\ s[Len(s)] = "/" THEN StripEndSlashes(SubSeq(s, 1, Len(s) - 1)) ELSE s

\* a matching that compares the pathname as it is
MatchedAsWritten(pathname) == pathname

\* what of a pathname the matching of a route path looks at: the letters
\* without regard to case, and not the slashes at the end of the pathname
Matched(pathname) == IgnoreCase(StripEndSlashes(pathname))

\* the page element the route table renders for a pathname; the "*" route
\* matches what no other route matches
Route(path) ==
  LET p == Matched(path)
  IN  CASE p = SigninCallbackPath -> "SigninCallback"
        [] p = AppPath -> "Dashboard"
        [] p = ViewerPath -> "Viewer"
        [] p = ActivityPath -> "Activity"
        [] p = SettingsPath -> "Settings"
        [] OTHER -> "NotFound"

\* the routes that are children of the "/app" route, whose element is AppShell
ShellPages == {"Dashboard", "Viewer", "Activity", "Settings"}

----------------------------------------------------------------------------
(* ui/AppShell: the navigation shell *)

NavItems ==
  << [to |-> AppPath, label |-> <<"D","a","s","h","b","o","a","r","d">> (* Dashboard *)],
     [to |-> ViewerPath, label |-> <<"V","i","e","w","e","r">> (* Viewer *)],
     [to |-> ActivityPath, label |-> <<"A","c","t","i","v","i","t","y">> (* Activity *)],
     [to |-> SettingsPath, label |-> <<"S","e","t","t","i","n","g","s">> (* Settings *)] >>

\* an item that is highlighted when the pathname is its target
NavItemExact(pathname, item) == [label |-> item.label, active |-> pathname = item.to]

\* NavItem: the item is highlighted when the pathname starts with its target
NavItem(pathname, item) == [label |-> item.label, active |-> StartsWith(pathname, item.to)]

NoView == [shell |-> FALSE, page |-> "None", highlighted |-> {}]

\* what the router renders at a pathname: the page, inside AppShell or not,
\* and the labels of the highlighted items of the shell's nav
Render(pathname) ==
  LET page == Route(pathname)
      items == {NavItem(pathname, NavItems[k]) : k \in DOMAIN NavItems}
  IN  [shell |-> page \in ShellPages,
       page |-> page,
       highlighted |-> IF page \in ShellPages
                       THEN {it.label : it \in {x \in items : x.active}}
                       ELSE {}]

----------------------------------------------------------------------------
(* pages/SigninCallback: the callback page *)

InitialMsg == <<"S","i","g","n","i","n","g"," ","y","o","u"," ","i","n","U+2026">> (* Signing you in... *)
FailedPrefix == <<"S","i","g","n","-","i","n"," ","f","a","i","l","e","d",":"," ">> (* Sign-in failed:  *)

\* the function useNavigate returns: under createBrowserRouter it is the same
\* function on every render
NavFn == "navigate"

\* the messages of the errors the auth client rejects with; Undefined is the
\* message of a rejection value that is no Error
ErrorMessages == {<<"b","a","d"," ","s","t","a","t","e">> (* bad state *), <<"d","e","n","i","e","d">> (* denied *), Undefined}

Outcomes == {[kind |-> "resolve", message |-> Undefined]} \cup
            {[kind |-> "reject", message |-> m] : m \in ErrorMessages}

\* an effect without a dependency array: it runs after every render
DepsChangedAlways(old, new) == TRUE

\* useEffect(fn, deps): fn runs after the first render, and after a render
\* whose deps differ from the previous render's
DepsChanged(old, new) == old # new

\* the effect: the async function runs up to `await handleSigninCallback()`
runEffect(t, i) ==
  [t EXCEPT !.calls = Append(@, [inst |-> i, promise |-> "pending",
                                 message |-> Undefined, mounted |-> TRUE,
                                 auth |-> Len(t.authCalls) + 1]),
            !.authCalls = Append(@, callWrapper(<<"h","a","n","d","l","e","S","i","g","n","i","n","C","a","l","l","b","a","c","k">> (* handleSigninCallback *), "effect"))]

\* a render that gives a pending call up, as a timeout would
renderCallbackTimeout(t, i) ==
  LET deps == <<NavFn>>
      t1 == [t EXCEPT !.cb[i].deps = deps]
  IN  IF DepsChanged(t.cb[i].deps, deps) THEN runEffect(t1, i)
      ELSE [t1 EXCEPT !.cb[i].msg = FailedPrefix \o <<"t","i","m","e","o","u","t">> (* timeout *),
                      !.cb[i].displayed = @ \cup {FailedPrefix \o <<"t","i","m","e","o","u","t">> (* timeout *)}]

\* one render of instance i and the effects it schedules
renderCallback(t, i) ==
  LET deps == <<NavFn>>
      t1 == [t EXCEPT !.cb[i].deps = deps]
  IN  IF DepsChanged(t.cb[i].deps, deps) THEN runEffect(t1, i) ELSE t1

\* a new instance: useState("Signing you in…"), the first render, the effect
mountCallback(t) ==
  LET inst == [status |-> "mounted", msg |-> InitialMsg,
               deps |-> <<>>, displayed |-> {InitialMsg}, navigated |-> FALSE]
  IN  renderCallback([t EXCEPT !.cb = Append(@, inst)], Len(t.cb) + 1)

unmountCallback(t) ==
  [t EXCEPT !.cb = [i \in DOMAIN @ |->
                      IF @[i].status = "mounted" THEN [@[i] EXCEPT !.status = "unmounted"]
                      ELSE @[i]]]

\* setMsg(m): a state update of an unmounted component is dropped; of a mounted
\* one it re-renders the component
setMsg(t, i, m) ==
  IF t.cb[i].status = "mounted"
  THEN renderCallback([t EXCEPT !.cb[i].msg = m, !.cb[i].displayed = @ \cup {m}], i)
  ELSE t

----------------------------------------------------------------------------
(* pages/Viewer: the Viewer page *)

Null == [null |-> TRUE]

DEFAULT_HOTSPOTS ==
  << [id |-> <<"r","e","c","e","p","t","i","o","n">> (* reception *),
      title |-> <<"R","e","c","e","p","t","i","o","n">> (* Reception *),
      description |-> <<"B","o","o","k"," ","a"," ","d","e","m","o"," ","o","r"," ","r","e","q","u","e","s","t"," ","e","n","t","e","r","p","r","i","s","e"," ","s","e","c","u","r","i","t","y"," ","s","e","r","v","i","c","e","s",".">> (* Book a demo or request enterprise security services. *),
      ctaLabel |-> <<"C","o","n","t","a","c","t"," ","U","s">> (* Contact Us *),
      ctaPath |-> <<"/","c","o","n","t","a","c","t","-","u","s">> (* /contact-us *)],
     [id |-> <<"s","h","o","w","r","o","o","m">> (* showroom *),
      title |-> <<"S","h","o","w","r","o","o","m">> (* Showroom *),
      description |-> <<"E","x","p","l","o","r","e"," ","s","e","r","v","i","c","e","s"," ","a","n","d"," ","o","f","f","e","r","i","n","g","s"," ","t","i","e","d"," ","t","o"," ","m","o","d","e","l"," ","l","o","c","a","t","i","o","n","s",".">> (* Explore services and offerings tied to model locations. *),
      ctaLabel |-> <<"V","i","e","w"," ","S","e","r","v","i","c","e","s">> (* View Services *),
      ctaPath |-> <<"/","s","e","r","v","i","c","e","s">> (* /services *)] >>

Hotspots == {DEFAULT_HOTSPOTS[i] : i \in DOMAIN DEFAULT_HOTSPOTS}

RECURSIVE StripTrailingSlashes(_)
\* base.replace(/\/+$/, "")
StripTrailingSlashes(s) ==
  IF s # <<>> /\ s[Len(s)] = "/" THEN StripTrailingSlashes(SubSeq(s, 1, Len(s) - 1))
  ELSE s

\* base.replace(/\/$/, ""): one slash only
StripOneTrailingSlash(s) ==
  IF s # <<>> /\ s[Len(s)] = "/" THEN SubSeq(s, 1, Len(s) - 1) ELSE s

marketingUrlOneSlash(e, path) ==
  StripOneTrailingSlash(e.marketingBaseUrl) \o
    (IF StartsWith(path, <<"/">>) THEN path ELSE <<"/">> \o path)

marketingUrl(e, path) ==
  StripTrailingSlashes(e.marketingBaseUrl) \o
    (IF StartsWith(path, <<"/">>) THEN path ELSE <<"/">> \o path)

UnmountedViewer == [mounted |-> FALSE, selected |-> Null]

\* useState<Hotspot | null>(null)
mountViewerNull == [mounted |-> TRUE, selected |-> Null]

\* useState<Hotspot | null>(DEFAULT_HOTSPOTS[0])
mountViewer == [mounted |-> TRUE, selected |-> DEFAULT_HOTSPOTS[1]]

\* what the details panel of the Viewer shows
DetailsPanel(v, e) ==
  IF v.selected = Null
  THEN [placeholder |-> <<"S","e","l","e","c","t"," ","a"," ","h","o","t","s","p","o","t",".">> (* Select a hotspot. *)]
  ELSE [title |-> v.selected.title,
        description |-> v.selected.description,
        ctaLabel |-> v.selected.ctaLabel,
        href |-> marketingUrl(e, v.selected.ctaPath)]

----------------------------------------------------------------------------
(* the component tree under the router *)

Tree == [cb |-> cb, calls |-> calls, viewer |-> viewer, view |-> view, authCalls |-> authCalls]

EmptyTree == [cb |-> <<>>, calls |-> <<>>, viewer |-> UnmountedViewer, view |-> NoView,
              authCalls |-> <<>>]

\* the router replaces the element of the route left by the element of the
\* route entered; an element that stays keeps its state
applyRoute(t, from, to) ==
  LET t1 == IF from = "SigninCallback" /\ to # "SigninCallback" THEN unmountCallback(t)
            ELSE t
      t2 == IF from = "Viewer" /\ to # "Viewer" THEN [t1 EXCEPT !.viewer = UnmountedViewer]
            ELSE t1
      t3 == IF to = "SigninCallback" /\ from # "SigninCallback" THEN mountCallback(t2)
            ELSE t2
  IN  IF to = "Viewer" /\ from # "Viewer" THEN [t3 EXCEPT !.viewer = mountViewer]
      ELSE t3

\* the router renders pathname `to`, having rendered `from` (a page name)
renderAt(t, from, to) == [applyRoute(t, from, Route(to)) EXCEPT !.view = Render(to)]

\* navigate(path)
navigate(t, path) == renderAt(t, Route(location), path)

SetTree(t) ==
  /\ cb' = t.cb /\ calls' = t.calls /\ viewer' = t.viewer
  /\ view' = t.view /\ authCalls' = t.authCalls

Event(kind, arg) == [kind |-> kind, arg |-> arg]

----------------------------------------------------------------------------
(* push_to_github.js: the values of getAccessToken *)

\* the bound of the clock, in milliseconds
MaxTime == 3

Digits == <<"0", "1", "2", "3", "4", "5", "6", "7", "8", "9">>

\* Date.prototype.toISOString of the instant t, for the first milliseconds
IsoString(t) == <<"1","9","7","0","-","0","1","-","0","1","T","0","0",":","0","0",":","0","0",".","0","0">> (* 1970-01-01T00:00:00.00 *) \o <<Digits[t + 1]>> \o <<"Z">>

NaN == [nan |-> TRUE, ms |-> 0]
Number(n) == [nan |-> FALSE, ms |-> n]

\* new Date(v).getTime(): the instant an ISO string writes, NaN for undefined
\* and for a string that writes no date
DateGetTime(v) ==
  IF \E t \in 0..9 : v = IsoString(t)
  THEN Number(CHOOSE t \in 0..9 : v = IsoString(t))
  ELSE NaN

\* a > b
GreaterThan(a, b) == ~a.nan /\ ~b.nan /\ a.ms > b.ms

NoSettings ==
  [kind |-> "undefined", access_token |-> Undefined, expires_at |-> Undefined,
   oauth |-> Undefined]

\* a settings object; oauth is the value of oauth?.credentials?.access_token
Settings(token, expires, oauth) ==
  [kind |-> "object", access_token |-> token, expires_at |-> expires, oauth |-> oauth]

NullConnection == [kind |-> "null", settings |-> NoSettings]
UndefinedConnection == [kind |-> "undefined", settings |-> NoSettings]
Connection(settings) == [kind |-> "object", settings |-> settings]

\* no element has been read of undefined
SettingsOfUndefined == <<"C","a","n","n","o","t"," ","r","e","a","d"," ","p","r","o","p","e","r","t","i","e","s"," ","o","f"," ","u","n","d","e","f","i","n","e","d"," ","(","r","e","a","d","i","n","g"," ","'","s","e","t","t","i","n","g","s","'",")">> (* Cannot read properties of undefined (reading 'settings') *)
ExpiresAtOfUndefined == <<"C","a","n","n","o","t"," ","r","e","a","d"," ","p","r","o","p","e","r","t","i","e","s"," ","o","f"," ","u","n","d","e","f","i","n","e","d"," ","(","r","e","a","d","i","n","g"," ","'","e","x","p","i","r","e","s","_","a","t","'",")">> (* Cannot read properties of undefined (reading 'expires_at') *)
ItemsOfNull == <<"C","a","n","n","o","t"," ","r","e","a","d"," ","p","r","o","p","e","r","t","i","e","s"," ","o","f"," ","n","u","l","l"," ","(","r","e","a","d","i","n","g"," ","'","i","t","e","m","s","'",")">> (* Cannot read properties of null (reading 'items') *)
NoReplitToken == <<"X","_","R","E","P","L","I","T","_","T","O","K","E","N"," ","n","o","t"," ","f","o","u","n","d"," ","f","o","r"," ","r","e","p","l","/","d","e","p","l">> (* X_REPLIT_TOKEN not found for repl/depl *)
NotConnected == <<"G","i","t","H","u","b"," ","n","o","t"," ","c","o","n","n","e","c","t","e","d">> (* GitHub not connected *)

\* the cached path is taken at every instant up to and including the expiry
cachedAtExpiry(c, now) ==
  IF c.kind # "object" THEN Returned(FALSE)
  ELSE IF c.settings.kind # "object" THEN Thrown(ExpiresAtOfUndefined)
  ELSE Returned(/\ ~Falsy(c.settings.expires_at)
                /\ ~DateGetTime(c.settings.expires_at).nan
                /\ DateGetTime(c.settings.expires_at).ms >= now)

\* the condition of the cached path of getAccessToken
cached(c, now) ==
  IF c.kind # "object" THEN Returned(FALSE)
  ELSE IF c.settings.kind # "object" THEN Thrown(ExpiresAtOfUndefined)
  ELSE Returned(/\ ~Falsy(c.settings.expires_at)
                /\ GreaterThan(DateGetTime(c.settings.expires_at), Number(now)))

\* the header X_REPLIT_TOKEN; null is JsNull
xReplitToken(penv) ==
  IF ~Falsy(penv.REPL_IDENTITY) THEN <<"r","e","p","l"," ">> (* repl  *) \o penv.REPL_IDENTITY
  ELSE IF ~Falsy(penv.WEB_REPL_RENEWAL) THEN <<"d","e","p","l"," ">> (* depl  *) \o penv.WEB_REPL_RENEWAL
  ELSE JsNull

\* what the connector's response body is parsed to
NoItems == [kind |-> "object", items |-> "undefined", first |-> UndefinedConnection]
EmptyItems == [kind |-> "object", items |-> "array", first |-> UndefinedConnection]
Items(c) == [kind |-> "object", items |-> "array", first |-> c]
NullData == [kind |-> "null", items |-> "undefined", first |-> UndefinedConnection]

\* data.items?.[0]
firstItem(data) ==
  IF data.kind = "null" THEN Thrown(ItemsOfNull)
  ELSE Returned(IF data.items = "undefined" THEN UndefinedConnection ELSE data.first)

\* as accessTokenOf, the connection read with ?. in the second operand as well
accessTokenOfOptional(c) ==
  Returned(LogicalOr(c.settings.access_token, c.settings.oauth))

\* connectionSettings?.settings?.access_token ||
\*   connectionSettings.settings?.oauth?.credentials?.access_token
accessTokenOf(c) ==
  IF ~Falsy(c.settings.access_token) THEN Returned(c.settings.access_token)
  ELSE IF c.kind # "object" THEN Thrown(SettingsOfUndefined)
  ELSE Returned(c.settings.oauth)

\* getAccessToken from the assignment of connectionSettings on
afterFetch(c) ==
  LET t == accessTokenOf(c)
  IN  IF t.threw THEN t
      ELSE IF c.kind # "object" \/ Falsy(t.value) THEN Thrown(NotConnected)
      ELSE Returned(t.value)

\* String.prototype.includes
Includes(s, p) == \E i \in 1..(Len(s) - Len(p) + 1) : SubSeq(s, i, i + Len(p) - 1) = p

PushIdle ==
  /\ connectionSettings = NullConnection
  /\ clock = 0
  /\ processEnv = [REPL_IDENTITY |-> Undefined, WEB_REPL_RENEWAL |-> Undefined]
  /\ pushPc = "idle"
  /\ tokenCalls = <<>>
  /\ console = <<>>
  /\ exitCode = <<>>
  /\ gitPushes = <<>>

\* deploy.sh before it is run
DeployIdle ==
  /\ deployPc = "idle"
  /\ files = [appPy |-> TRUE, sshKey |-> FALSE]
  /\ CURRENT_BRANCH = <<>>
  /\ stdout = <<>>
  /\ exitStatus = <<>>
  /\ pushes = <<>>

\* new N8NClient(baseURL)
N8NClient(baseURL) ==
  [baseURL |-> StripOneTrailingSlash(baseURL), timeout |-> 30000]

\* the instance the module exports, under the environment's N8N_IP
ExportedClient(ip) ==
  N8NClient(<<"h","t","t","p",":","/","/">> (* http:// *) \o (IF Falsy(ip) THEN <<"Y","O","U","R","_","N","8","N","_","I","P","_","H","E","R","E">> (* YOUR_N8N_IP_HERE *) ELSE ip) \o <<":","5","6","7","8">> (* :5678 *))

\* the n8n client with no call made
N8NIdle ==
  /\ n8n = ExportedClient(Undefined)
  /\ workflowCalls = <<>>
  /\ posts = <<>>

\* a document that is being parsed, the analytics script not yet run
NewDocument ==
  /\ readyState = "loading"
  /\ contentLoaded = FALSE
  /\ scriptRan = FALSE
  /\ listeners = <<>>
  /\ imports = <<>>
  /\ pageConsole = <<>>
  /\ pageErrors = <<>>

AnalyticsIdle ==
  /\ NewDocument
  /\ initCalls = <<0>>

----------------------------------------------------------------------------
(* static/ai_script.js: the chat widget *)

\* how many sends get past the guards of sendMessage in one run
MaxSends == 2

Fallback == <<"S","o","r","r","y",","," ","s","o","m","e","t","h","i","n","g"," ","w","e","n","t"," ","w","r","o","n","g"," ","w","h","i","l","e"," ","c","o","n","t","a","c","t","i","n","g"," ","t","h","e"," ","a","s","s","i","s","t","a","n","t",".">> (* Sorry, something went wrong while contacting the assistant. *)

\* the replacements in another order: the ampersand last
escapeHtmlAmpLast(str) ==
  ReplaceAll(ReplaceAll(ReplaceAll(str, "<", <<"&","l","t",";">> (* &lt; *)), ">", <<"&","g","t",";">> (* &gt; *)), "&", <<"&","a","m","p",";">> (* &amp; *))

escapeHtml(str) ==
  ReplaceAll(ReplaceAll(ReplaceAll(str, "&", <<"&","a","m","p",";">> (* &amp; *)), "<", <<"&","l","t",";">> (* &lt; *)), ">", <<"&","g","t",";">> (* &gt; *))

\* the TypeError of calling .replace on a value that is no string
TypeError == <<"s","t","r",".","r","e","p","l","a","c","e"," ","i","s"," ","n","o","t"," ","a"," ","f","u","n","c","t","i","o","n">> (* str.replace is not a function *)

\* as appendMessage, the new paragraph taking the place of the chatbox's content
appendMessageReplace(box, sender, text, type, send) ==
  IF ~dom.chatboxEl THEN Returned(box)
  ELSE IF ~IsString(text) THEN Thrown(TypeError)
  ELSE Returned(<<[classList |-> {<<"m","e","s","s","a","g","e">> (* message *), type},
                   innerHTML |-> <<"<","b",">">> \o sender \o <<":","<","/","b",">"," ">> (* :</b>  *) \o escapeHtml(text),
                   send |-> send,
                   text |-> text]>>)

\* appendMessage(sender, text, type) on the children `box` of chatboxEl; `send`
\* and `text` record which send appended the message and with which text
appendMessage(box, sender, text, type, send) ==
  IF ~dom.chatboxEl THEN Returned(box)
  ELSE IF ~IsString(text) THEN Thrown(TypeError)
  ELSE Returned(Append(box,
         [classList |-> {<<"m","e","s","s","a","g","e">> (* message *), type},
          innerHTML |-> <<"<","b",">">> \o sender \o <<":","<","/","b",">"," ">> (* :</b>  *) \o escapeHtml(text),
          send |-> send,
          text |-> text]))

\* the button as the finally block leaves it
finallyBlockSkipped(btn) == btn

finallyBlock(btn) == [disabled |-> FALSE, textContent |-> <<"S","e","n","d">> (* Send *)]

\* a catch block that appends nothing
catchBlockSilent(box, send) == box

\* the catch block
catchBlock(box, send) == appendMessage(box, <<"A","I">>, Fallback, <<"a","i">>, send).value

\* a parsed JSON body: null, or an object whose property reply is `reply`
JsonNull == [null |-> TRUE, reply |-> Undefined]
JsonObject(reply) == [null |-> FALSE, reply |-> reply]

\* a character inside a JSON string
JsonChar(c) ==
  CASE c = "\"" -> <<"\\","\"">>
    [] c = "\\" -> <<"\\","\\">>
    [] c = "\n" -> <<"\\","n">>
    [] c = "\t" -> <<"\\","t">>
    [] OTHER -> <<c>>

\* JSON.stringify of a string
JsonString(str) == <<"\"">> \o Concat([k \in 1..Len(str) |-> JsonChar(str[k])]) \o <<"\"">>

\* the body put together from the text as it is
JSONstringifyRaw(text) == <<"{","\"","m","e","s","s","a","g","e","\"",":">> \o <<"\"">> \o text \o <<"\"">> \o <<"}">>

\* JSON.stringify({ message: text })
JSONstringify(text) == <<"{","\"","m","e","s","s","a","g","e","\"",":">> \o JsonString(text) \o <<"}">>

\* the request of fetch("/chat", {...}) for a text
ChatRequest(text) ==
  [url |-> <<"/","c","h","a","t">> (* /chat *),
   method |-> <<"P","O","S","T">> (* POST *),
   headers |-> [ContentType |-> <<"a","p","p","l","i","c","a","t","i","o","n","/","j","s","o","n">> (* application/json *)],
   body |-> JSONstringify(text)]

\* what the user types, and what the server answers
InputTexts == {<<>>, <<" "," ">>, <<" ","h","e","l","l","o"," ">> (*  hello  *), <<"<","\"","a","\\","&">>}
ReplyValues == {<<"h","i">>, <<"a","<","b"," ","&","&"," ","c">> (* a<b && c *), Undefined, JsNumber}

FetchOutcomes ==
  {[kind |-> "reject", json |-> FALSE, data |-> JsonNull],
   [kind |-> "response", json |-> FALSE, data |-> JsonNull],
   [kind |-> "response", json |-> TRUE, data |-> JsonNull]} \cup
  {[kind |-> "response", json |-> TRUE, data |-> JsonObject(r)] : r \in ReplyValues}

NoOutcome == [kind |-> "pending", json |-> FALSE, data |-> JsonNull]

ChatIdle ==
  /\ inputValue = <<>>
  /\ chatbox = <<>>
  /\ sendBtn = [disabled |-> FALSE, textContent |-> <<"S","e","n","d">> (* Send *)]
  /\ sends = <<>>
  /\ requests = <<>>
  /\ chatEvent = "load"

AllElements == [inputEl |-> TRUE, chatboxEl |-> TRUE, sendBtn |-> TRUE]

\* the user edits the input field
TypeInput(t) ==
  /\ dom.inputEl
  /\ Len(sends) < MaxSends
  /\ inputValue # t
  /\ inputValue' = t
  /\ chatEvent' = "input"
  /\ UNCHANGED <<chatbox, sendBtn, sends, requests, dom>>
  /\ UNCHANGED <<appVars, toolVars>>

\* sendMessage up to `await fetch(...)`
sendMessage ==
  IF ~dom.inputEl \/ ~dom.chatboxEl \/ ~dom.sendBtn
  THEN UNCHANGED <<inputValue, chatbox, sendBtn, sends, requests>>
  ELSE LET text == trim(inputValue)
           s == Len(sends) + 1
       IN  IF Falsy(text)
           THEN UNCHANGED <<inputValue, chatbox, sendBtn, sends, requests>>
           ELSE /\ chatbox' = appendMessage(chatbox, <<"Y","o","u">>, text, <<"u","s","e","r">> (* user *), s).value
                /\ inputValue' = <<>>
                /\ sendBtn' = [disabled |-> TRUE, textContent |-> <<"S","e","n","d","i","n","g",".",".",".">> (* Sending... *)]
                /\ requests' = Append(requests, [send |-> s, request |-> ChatRequest(text)])
                /\ sends' = Append(sends,
                     [typed |-> inputValue,
                      text |-> text,
                      pc |-> "fetch",
                      outcome |-> NoOutcome])

\* the keydown listener of the input field, for the Enter key
KeydownEnter ==
  /\ dom.inputEl
  /\ Len(sends) < MaxSends
  /\ sendMessage
  /\ chatEvent' = "enter"
  /\ UNCHANGED dom
  /\ UNCHANGED <<appVars, toolVars>>

\* the end of a send: catch if an error was thrown, then finally
endSend(s, box, threw) ==
  /\ chatbox' = IF threw THEN catchBlock(box, s) ELSE box
  /\ sendBtn' = finallyBlock(sendBtn)

\* the fetch of send s settles: rejected, or resolved with a response, on
\* which sendMessage calls response.json()
FetchSettles(s, o) ==
  /\ sends[s].pc = "fetch"
  /\ IF o.kind = "reject"
     THEN /\ sends' = [sends EXCEPT ![s].pc = "done", ![s].outcome = o]
          /\ endSend(s, chatbox, TRUE)
     ELSE /\ sends' = [sends EXCEPT ![s].pc = "json", ![s].outcome = o]
          /\ UNCHANGED <<chatbox, sendBtn>>
  /\ chatEvent' = "fetch"
  /\ UNCHANGED <<inputValue, requests, dom>>
  /\ UNCHANGED <<appVars, toolVars>>

\* response.json() of send s settles: rejected if the body is no JSON, else
\* resolved with the data, whose reply is appended
JsonSettles(s) ==
  /\ sends[s].pc = "json"
  /\ sends' = [sends EXCEPT ![s].pc = "done"]
  /\ LET o == sends[s].outcome
     IN  IF ~o.json \/ o.data.null
         THEN endSend(s, chatbox, TRUE)
         ELSE LET r == appendMessage(chatbox, <<"A","I">>, o.data.reply, <<"a","i">>, s)
              IN  IF r.threw THEN endSend(s, chatbox, TRUE)
                  ELSE endSend(s, r.value, FALSE)
  /\ chatEvent' = "json"
  /\ UNCHANGED <<inputValue, requests, dom>>
  /\ UNCHANGED <<appVars, toolVars>>

\* the app of the other page, not loaded
AppNotLoaded ==
  /\ importMetaEnv = MetaEnv(Undefined, Undefined, Undefined, Undefined, Undefined,
                             Undefined, Undefined, Undefined)
  /\ boot = "loading"
  /\ startupError = NoError
  /\ env = NoEnv
  /\ authClient = NoClient
  /\ location = <<"/">>
  /\ cb = <<>>
  /\ calls = <<>>
  /\ viewer = UnmountedViewer
  /\ view = NoView
  /\ authCalls = <<>>
  /\ lastEvent = Event("load", <<>>)

ChatInit ==
  /\ AppNotLoaded
  /\ ChatIdle
  /\ PushIdle
  /\ DeployIdle
  /\ N8NIdle
  /\ AnalyticsIdle
  /\ dom \in [inputEl : BOOLEAN, chatboxEl : BOOLEAN, sendBtn : BOOLEAN]

ChatNext ==
  \/ \E t \in InputTexts : TypeInput(t)
  \/ KeydownEnter
  \/ \E s \in DOMAIN sends, o \in FetchOutcomes : FetchSettles(s, o)
  \/ \E s \in DOMAIN sends : JsonSettles(s)

SpecChat == ChatInit /\ [][ChatNext]_vars

----------------------------------------------------------------------------
(* the control-center app *)

AppLoading ==
  /\ boot = "loading"
  /\ startupError = NoError
  /\ env = NoEnv
  /\ authClient = NoClient
  /\ location \in Paths
  /\ cb = <<>>
  /\ calls = <<>>
  /\ viewer = UnmountedViewer
  /\ view = NoView
  /\ authCalls = <<>>
  /\ lastEvent = Event("load", <<>>)

Init ==
  /\ importMetaEnv \in AppMetaEnvs
  /\ AppLoading
  /\ ChatIdle
  /\ PushIdle
  /\ DeployIdle
  /\ N8NIdle
  /\ AnalyticsIdle
  /\ dom = AllElements

\* the modules load: config/env builds env, auth/oidc constructs the client,
\* the router renders the element of the current location
Startup ==
  /\ boot = "loading"
  /\ LET r == BuildEnv(importMetaEnv)
     IN  IF r.threw
         THEN /\ boot' = "failed"
              /\ startupError' = r.message
              /\ UNCHANGED <<env, authClient, cb, calls, viewer, view, authCalls>>
         ELSE /\ boot' = "running"
              /\ env' = r.value
              /\ authClient' = NewAuthClient(r.value)
              /\ SetTree(renderAt(EmptyTree, "None", location))
              /\ UNCHANGED startupError
  /\ lastEvent' = Event("startup", <<>>)
  /\ UNCHANGED <<importMetaEnv, location>>
  /\ UNCHANGED <<chatVars, toolVars>>

\* the user moves to another route (a link of the shell, the history)
UserNavigate(path) ==
  /\ boot = "running"
  /\ path # location
  /\ Route(path) = "SigninCallback" => Len(cb) < MaxMounts
  /\ location' = path
  /\ SetTree(navigate(Tree, path))
  /\ lastEvent' = Event("navigate", <<>>)
  /\ UNCHANGED <<importMetaEnv, boot, startupError, env, authClient>>
  /\ UNCHANGED <<chatVars, toolVars>>

\* React renders a mounted callback page again
RerenderCallback(i) ==
  /\ boot = "running"
  /\ cb[i].status = "mounted"
  /\ SetTree(renderCallback(Tree, i))
  /\ lastEvent' = Event("rerender", <<"S","i","g","n","i","n","C","a","l","l","b","a","c","k">> (* SigninCallback *))
  /\ UNCHANGED <<importMetaEnv, boot, startupError, env, authClient, location>>
  /\ UNCHANGED <<chatVars, toolVars>>

\* the settled call c, as the continuation finds it
settled(t, c, o) ==
  [t EXCEPT !.calls[c].promise = IF o.kind = "resolve" THEN "resolved" ELSE "rejected",
            !.calls[c].message = o.message,
            !.calls[c].mounted = (t.cb[t.calls[c].inst].status = "mounted")]

\* as CallbackContinuation, with the message set in a finally block
CallbackContinuationFinally(t, c, o) ==
  LET i == t.calls[c].inst
      t1 == setMsg(settled(t, c, o), i, FailedPrefix \o ToStr(o.message))
  IN  IF o.kind = "resolve"
      THEN [path |-> ViewerPath,
            tree |-> navigate([t1 EXCEPT !.cb[i].navigated = TRUE], ViewerPath)]
      ELSE [path |-> location, tree |-> t1]

\* as CallbackContinuation, with `${e}` for `${e.message}`
CallbackContinuationErrString(t, c, o) ==
  LET i == t.calls[c].inst
      t1 == settled(t, c, o)
  IN  IF o.kind = "resolve"
      THEN [path |-> ViewerPath,
            tree |-> navigate([t1 EXCEPT !.cb[i].navigated = TRUE], ViewerPath)]
      ELSE [path |-> location,
            tree |-> setMsg(t1, i, FailedPrefix \o <<"E","r","r","o","r",":"," ">> (* Error:  *) \o ToStr(o.message))]

\* the continuation of the effect's async function after the await: call c of
\* handleSigninCallback settles with the client's outcome
CallbackContinuation(t, c, o) ==
  LET i == t.calls[c].inst
      t1 == settled(t, c, o)
  IN  IF o.kind = "resolve"
      THEN [path |-> ViewerPath,
            tree |-> navigate([t1 EXCEPT !.cb[i].navigated = TRUE], ViewerPath)]
      ELSE [path |-> location,
            tree |-> setMsg(t1, i, FailedPrefix \o ToStr(o.message))]

SigninCallbackSettles(c, outcome) ==
  /\ boot = "running"
  /\ calls[c].promise = "pending"
  /\ LET a == calls[c].auth
         t1 == [Tree EXCEPT !.authCalls[a] = settleWrapper(@, outcome)]
         r == CallbackContinuation(t1, c, t1.authCalls[a].result)
     IN  /\ location' = r.path
         /\ SetTree(r.tree)
  /\ lastEvent' = Event("settle", <<>>)
  /\ UNCHANGED <<importMetaEnv, boot, startupError, env, authClient>>
  /\ UNCHANGED <<chatVars, toolVars>>

\* onClick of the button of hotspot h
onClickHotspot(v, h) == [v EXCEPT !.selected = h]

ClickHotspot(h) ==
  /\ boot = "running"
  /\ viewer.mounted
  /\ viewer' = onClickHotspot(viewer, h)
  /\ lastEvent' = Event("click", h.id)
  /\ UNCHANGED <<importMetaEnv, boot, startupError, env, authClient, location, cb, calls,
                 view, authCalls>>
  /\ UNCHANGED <<chatVars, toolVars>>

\* React renders the mounted Viewer again: useState returns the current state
renderViewer(v) == v

RerenderViewer ==
  /\ boot = "running"
  /\ viewer.mounted
  /\ viewer' = renderViewer(viewer)
  /\ lastEvent' = Event("rerender", <<"V","i","e","w","e","r">> (* Viewer *))
  /\ UNCHANGED <<importMetaEnv, boot, startupError, env, authClient, location, cb, calls,
                 view, authCalls>>
  /\ UNCHANGED <<chatVars, toolVars>>

Next ==
  \/ Startup
  \/ \E path \in Paths : UserNavigate(path)
  \/ \E i \in DOMAIN cb : RerenderCallback(i)
  \/ \E c \in DOMAIN calls, o \in Outcomes : SigninCallbackSettles(c, o)
  \/ \E h \in Hotspots : ClickHotspot(h)
  \/ RerenderViewer

Spec == Init /\ [][Next]_vars

\* the startup alone, under every environment of the bounded value sets
EnvInit ==
  /\ importMetaEnv \in ImportMetaEnvs
  /\ AppLoading
  /\ location = AppPath
  /\ ChatIdle
  /\ PushIdle
  /\ DeployIdle
  /\ N8NIdle
  /\ AnalyticsIdle
  /\ dom = AllElements

EnvNext == Startup

SpecEnv == EnvInit /\ [][EnvNext]_vars

----------------------------------------------------------------------------
(* the buttons of the shell *)

\* how many times a button of the shell is clicked in one run
MaxClicks == 2

ButtonCalls == {a \in DOMAIN authCalls : authCalls[a].from = "button"}

\* onClick of "Sign in" and of "Sign out": () => void signIn(), () => void signOut()
ClickAuthButton(fn) ==
  /\ boot = "running"
  /\ view.shell
  /\ Cardinality(ButtonCalls) < MaxClicks
  /\ authCalls' = Append(authCalls, callWrapper(fn, "button"))
  /\ lastEvent' = Event("button", fn)
  /\ UNCHANGED <<importMetaEnv, boot, startupError, env, authClient, location, cb, calls,
                 viewer, view>>
  /\ UNCHANGED <<chatVars, toolVars>>

\* a rejection that reaches the render: React unmounts the whole tree
voidPromiseThrowsInRender(t, result) ==
  IF result.kind = "reject" THEN [EmptyTree EXCEPT !.authCalls = t.authCalls] ELSE t

\* `void promise`: the promise is dropped, no continuation runs when it settles
voidPromise(t, result) == t

\* the client's promise of a button's call settles; a rejection of the
\* wrapper's promise has no handler and is reported as unhandled
ButtonCallSettles(a, o) ==
  /\ boot = "running"
  /\ authCalls[a].from = "button"
  /\ authCalls[a].client = Pending
  /\ LET t1 == [Tree EXCEPT !.authCalls[a] = settleWrapper(@, o)]
         result == t1.authCalls[a].result
     IN  /\ SetTree(voidPromise(t1, result))
         /\ lastEvent' = Event(IF result.kind = "reject" THEN "unhandledrejection"
                                ELSE "settled", authCalls[a].fn)
  /\ UNCHANGED <<importMetaEnv, boot, startupError, env, authClient, location>>
  /\ UNCHANGED <<chatVars, toolVars>>

\* the pathnames the app is opened at (the callback page, as the identity
\* provider redirects to it, or a page of the shell) and the outcomes of the
\* client the shell is explored under; from there the user moves in the shell
ShellPaths == {SigninCallbackPath, AppPath, ViewerPath}
ShellOutcomes == {o \in Outcomes : o.kind = "resolve" \/ o.message = <<"d","e","n","i","e","d">> (* denied *)}

\* the app under one environment, with the buttons of the shell
ShellEnv ==
  MetaEnv(<<"v">>, <<"v">>, <<"v">>, Undefined, Undefined, Undefined, Undefined, <<"h","/">>)

ShellInit ==
  /\ importMetaEnv = ShellEnv
  /\ AppLoading
  /\ location \in ShellPaths
  /\ ChatIdle
  /\ PushIdle
  /\ DeployIdle
  /\ N8NIdle
  /\ AnalyticsIdle
  /\ dom = AllElements

ShellNext ==
  \/ Startup
  \/ \E path \in ShellPaths \ {SigninCallbackPath} : UserNavigate(path)
  \/ \E c \in DOMAIN calls, o \in ShellOutcomes : SigninCallbackSettles(c, o)
  \/ \E h \in Hotspots : ClickHotspot(h)
  \/ \E fn \in {<<"s","i","g","n","I","n">> (* signIn *), <<"s","i","g","n","O","u","t">> (* signOut *)} : ClickAuthButton(fn)
  \/ \E a \in DOMAIN authCalls, o \in ShellOutcomes : ButtonCallSettles(a, o)

SpecShell == ShellInit /\ [][ShellNext]_vars

----------------------------------------------------------------------------
(* the router on its own: the browser is sent from pathname to pathname *)

RouterInit ==
  /\ importMetaEnv = ShellEnv
  /\ boot = "loading"
  /\ startupError = NoError
  /\ env = NoEnv
  /\ authClient = NoClient
  /\ location \in RouterPaths
  /\ cb = <<>>
  /\ calls = <<>>
  /\ viewer = UnmountedViewer
  /\ view = NoView
  /\ authCalls = <<>>
  /\ lastEvent = Event("load", <<>>)
  /\ ChatIdle
  /\ PushIdle
  /\ DeployIdle
  /\ N8NIdle
  /\ AnalyticsIdle
  /\ dom = AllElements

RouterNext ==
  \/ Startup
  \/ \E path \in RouterPaths : UserNavigate(path)
  \/ \E c \in DOMAIN calls, o \in ShellOutcomes : SigninCallbackSettles(c, o)

SpecRouter == RouterInit /\ [][RouterNext]_vars

----------------------------------------------------------------------------
(* Properties of the environment configuration *)

Missing(k) == importMetaEnv[k] = Undefined

\* the first required key, in the order env reads them, that has no value
FirstUnset ==
  LET unset == {i \in 1..Len(RequiredKeys) : Falsy(importMetaEnv[RequiredKeys[i]])}
  IN  RequiredKeys[CHOOSE i \in unset : \A j \in unset : i <= j]

NothingBuilt ==
  /\ env = NoEnv
  /\ authClient = NoClient
  /\ cb = <<>> /\ calls = <<>>
  /\ ~viewer.mounted

\* C1, as stated: once the modules have loaded, every required key that is
\* missing is named by the startup error, and nothing was built.
C1_EveryMissingKeyNamed ==
  boot # "loading" =>
    \A i \in 1..Len(RequiredKeys) :
      Missing(RequiredKeys[i]) =>
        /\ boot = "failed"
        /\ startupError = MissingPrefix \o RequiredKeys[i]
        /\ NothingBuilt

\* C1, amended: once the modules have loaded, if a required key is missing
\* (or empty) startup has failed, the error names the first such key in the
\* order client ID, redirect URI, post-signout redirect URI, and no env object,
\* auth client or page exists; with every required key set, startup succeeds.
C1_FirstMissingKeyNamed ==
  boot # "loading" =>
    IF \E i \in 1..Len(RequiredKeys) : Falsy(importMetaEnv[RequiredKeys[i]])
    THEN /\ boot = "failed"
         /\ startupError = MissingPrefix \o FirstUnset
         /\ NothingBuilt
    ELSE boot = "running" /\ startupError = NoError /\ env # NoEnv

\* startup failed on the redirect URI, the client ID being set
C1_Witness ==
  /\ boot = "failed"
  /\ ~Falsy(importMetaEnv[VITE_ITWIN_CLIENT_ID])
  /\ Missing(VITE_ITWIN_REDIRECT_URI)
  /\ startupError = <<"M","i","s","s","i","n","g"," ","r","e","q","u","i","r","e","d"," ","e","n","v"," ","v","a","r",":"," ","V","I","T","E","_","I","T","W","I","N","_","R","E","D","I","R","E","C","T","_","U","R","I">> (* Missing required env var: VITE_ITWIN_REDIRECT_URI *)

----------------------------------------------------------------------------
(* Properties of the callback page *)

CallsOf(i) == {c \in DOMAIN calls : calls[c].inst = i}

ShowsFailure(m) == StartsWith(m, <<"S","i","g","n","-","i","n"," ","f","a","i","l","e","d">> (* Sign-in failed *))

\* C2: a call of handleSigninCallback that resolved for a mounted callback page
\* has navigated to /app/viewer (the step that resolves it ends at that
\* location, the page gone), and that page has displayed no "Sign-in failed"
\* text at any time.
C2_SuccessNavigates ==
  /\ [](\A c \in DOMAIN calls :
          calls[c].promise = "resolved" /\ calls[c].mounted =>
            /\ cb[calls[c].inst].navigated
            /\ cb[calls[c].inst].status = "unmounted"
            /\ \A m \in cb[calls[c].inst].displayed : ~ShowsFailure(m))
  /\ [][\A c \in DOMAIN calls :
          calls[c].promise = "pending" /\ calls'[c].promise = "resolved" =>
            location' = ViewerPath /\ viewer'.mounted]_vars

C2_Witness ==
  \E c \in DOMAIN calls :
    /\ calls[c].promise = "resolved" /\ calls[c].mounted
    /\ location = ViewerPath
    /\ lastEvent.kind = "settle"

\* C3: after handleSigninCallback rejected with an error of message m for a
\* mounted callback page, the page's text is "Sign-in failed: " followed by m,
\* and no longer the initial text.
C3_FailureMessage ==
  \A c \in DOMAIN calls :
    calls[c].promise = "rejected" /\ calls[c].mounted /\ IsString(calls[c].message) =>
      /\ cb[calls[c].inst].msg = FailedPrefix \o calls[c].message
      /\ cb[calls[c].inst].msg # InitialMsg

C3_Witness ==
  \E c \in DOMAIN calls :
    /\ calls[c].promise = "rejected" /\ calls[c].mounted
    /\ calls[c].message = <<"b","a","d"," ","s","t","a","t","e">> (* bad state *)
    /\ cb[calls[c].inst].status = "mounted"
    /\ cb[calls[c].inst].msg = <<"S","i","g","n","-","i","n"," ","f","a","i","l","e","d",":"," ","b","a","d"," ","s","t","a","t","e">> (* Sign-in failed: bad state *)

\* C4: every mount of the callback page has invoked handleSigninCallback
\* exactly once, whatever re-renders followed.
C4_OneCallPerMount ==
  \A i \in DOMAIN cb : Cardinality(CallsOf(i)) = 1

\* a page that failed (and so re-rendered) has just been rendered once more
C4_Witness ==
  \E i \in DOMAIN cb :
    /\ cb[i].status = "mounted"
    /\ ShowsFailure(cb[i].msg)
    /\ lastEvent = Event("rerender", <<"S","i","g","n","i","n","C","a","l","l","b","a","c","k">> (* SigninCallback *))

PageState(i) ==
  IF cb[i].navigated THEN "signed_in"
  ELSE IF ShowsFailure(cb[i].msg) THEN "failed"
  ELSE "pending"

\* C5: a callback page is never both failed and navigated, and its state only
\* ever changes from pending: to signed_in or to failed.
C5_Lifecycle ==
  /\ [](\A i \in DOMAIN cb : ~(cb[i].navigated /\ ShowsFailure(cb[i].msg)))
  /\ [][\A i \in DOMAIN cb :
          PageState(i)' # PageState(i) =>
            PageState(i) = "pending" /\ PageState(i)' \in {"signed_in", "failed"}]_vars

\* one page failed and an earlier one signed in
C5_Witness ==
  \E i, j \in DOMAIN cb : PageState(i) = "failed" /\ PageState(j) = "signed_in"

----------------------------------------------------------------------------
(* Properties of the Viewer page *)

HotspotOf(id) == CHOOSE h \in Hotspots : h.id = id

\* s is b with all of its trailing slashes removed
IsWithoutTrailingSlashes(s, b) ==
  \E k \in 0..Len(b) :
    /\ s = SubSeq(b, 1, k)
    /\ k = 0 \/ b[k] # "/"
    /\ \A j \in (k + 1)..Len(b) : b[j] = "/"

\* C9: right after a click on the button of hotspot h the details panel shows
\* h's title, description and CTA label, and the link's href is the configured
\* base URL without its trailing slashes, followed by h's ctaPath; with the
\* base URL not configured the href is the ctaPath.
C9_ClickShowsHotspot ==
  lastEvent.kind = "click" =>
    LET h == HotspotOf(lastEvent.arg)
        panel == DetailsPanel(viewer, env)
        base == Nullish(importMetaEnv[VITE_MARKETING_BASE_URL], <<"/">>)
    IN  /\ DOMAIN panel = {"title", "description", "ctaLabel", "href"}
        /\ panel.title = h.title
        /\ panel.description = h.description
        /\ panel.ctaLabel = h.ctaLabel
        /\ \E s \in {SubSeq(base, 1, k) : k \in 0..Len(base)} :
             IsWithoutTrailingSlashes(s, base) /\ panel.href = s \o h.ctaPath
        /\ Missing(VITE_MARKETING_BASE_URL) => panel.href = h.ctaPath

\* the second hotspot clicked, under a base URL that ends in two slashes
C9_Witness ==
  /\ lastEvent = Event("click", <<"s","h","o","w","r","o","o","m">> (* showroom *))
  /\ importMetaEnv[VITE_MARKETING_BASE_URL] = <<"h","/","/">>
  /\ DetailsPanel(viewer, env).href = <<"h","/","s","e","r","v","i","c","e","s">> (* h/services *)

\* C10: a mounted Viewer always has one of the two hotspots selected (so the
\* placeholder is not shown); the selection of a mounted Viewer changes only
\* in a click on a hotspot button; a Viewer that mounts has the first hotspot
\* selected.
C10_SelectionInvariant ==
  /\ [](viewer.mounted =>
          /\ viewer.selected \in Hotspots
          /\ "placeholder" \notin DOMAIN DetailsPanel(viewer, env))
  /\ [][viewer.mounted /\ viewer'.mounted /\ viewer'.selected # viewer.selected =>
          lastEvent'.kind = "click"]_vars
  /\ [][~viewer.mounted /\ viewer'.mounted =>
          viewer'.selected = DEFAULT_HOTSPOTS[1] /\ viewer'.selected.id = <<"r","e","c","e","p","t","i","o","n">> (* reception *)]_vars

\* the second hotspot is selected and the Viewer has been rendered again
C10_Witness ==
  /\ viewer.mounted
  /\ viewer.selected = DEFAULT_HOTSPOTS[2]
  /\ lastEvent.kind = "rerender"

----------------------------------------------------------------------------
(* appendMessage on its own: one message of any text in an empty chatbox *)

\* the length of the texts rendered
MaxTextLen == 3

Alphabet == {"a", "&", "<", ">", ";"}

TextsUpTo(n) == UNION {[1..k -> Alphabet] : k \in 0..n}

RenderTexts == TextsUpTo(MaxTextLen) \cup {<<"<","s","c","r","i","p","t",">">> (* <script> *), <<"&","l","t",";">> (* &lt; *), <<"a"," ","&","&"," ","b">> (* a && b *)}

RenderInit ==
  /\ AppNotLoaded
  /\ ChatIdle
  /\ PushIdle
  /\ DeployIdle
  /\ N8NIdle
  /\ AnalyticsIdle
  /\ dom = AllElements

\* a page whose chatbox is empty appends one message
RenderMessage(sender, type, text) ==
  /\ chatbox' = appendMessage(<<>>, sender, text, type, 0).value
  /\ chatEvent' = "append"
  /\ UNCHANGED <<inputValue, sendBtn, sends, requests, dom>>
  /\ UNCHANGED <<appVars, toolVars>>

RenderNext ==
  \E text \in RenderTexts :
    \/ RenderMessage(<<"Y","o","u">>, <<"u","s","e","r">> (* user *), text)
    \/ RenderMessage(<<"A","I">>, <<"a","i">>, text)

SpecRender == RenderInit /\ [][RenderNext]_vars

----------------------------------------------------------------------------
(* Properties of the chat widget *)

\* position k of h lies in a tag: after a "<" and not after its ">"
InTag(h, k) == \E i \in 1..k : h[i] = "<" /\ \A j \in i..(k - 1) : h[j] # ">"

\* the characters of h outside its tags
OutsideTags(h) ==
  LET marked == [k \in 1..Len(h) |-> [c |-> h[k], tag |-> InTag(h, k)]]
      kept == SelectSeq(marked, LAMBDA x : ~x.tag)
  IN  [k \in 1..Len(kept) |-> kept[k].c]

EntityAt(v, k, e) == k >= 1 /\ k + Len(e) - 1 <= Len(v) /\ SubSeq(v, k, k + Len(e) - 1) = e

Entities == {[e |-> <<"&","a","m","p",";">> (* &amp; *), c |-> "&"], [e |-> <<"&","l","t",";">> (* &lt; *), c |-> "<"],
             [e |-> <<"&","g","t",";">> (* &gt; *), c |-> ">"]}

\* v with the entities of &, < and > decoded
Decoded(v) ==
  Concat([k \in 1..Len(v) |->
     IF \E x \in Entities : EntityAt(v, k, x.e)
     THEN <<(CHOOSE x \in Entities : EntityAt(v, k, x.e)).c>>
     ELSE IF \E x \in Entities : \E i \in 1..(Len(x.e) - 1) : EntityAt(v, k - i, x.e)
     THEN <<>>
     ELSE <<v[k]>>])

\* the text a browser shows for a piece of HTML: tags are dropped and the
\* entities of &, < and > are decoded
TextContent(h) == Decoded(OutsideTags(h))

\* the messages send s appended, in the order of the chatbox
MessagesOf(s) == SelectSeq(chatbox, LAMBDA m : m.send = s)

\* t is s without its leading and trailing whitespace
IsTrimmed(t, s) ==
  \E i \in 1..(Len(s) + 1), j \in 0..Len(s) :
    /\ t = SubSeq(s, i, j)
    /\ \A k \in 1..(i - 1) : s[k] \in Whitespace
    /\ \A k \in (j + 1)..Len(s) : s[k] \in Whitespace
    /\ t = <<>> \/ (t[1] \notin Whitespace /\ t[Len(t)] \notin Whitespace)

GotReply(s) ==
  /\ sends[s].pc = "done"
  /\ sends[s].outcome.kind = "response" /\ sends[s].outcome.json
  /\ ~sends[s].outcome.data.null /\ IsString(sends[s].outcome.data.reply)

\* C6: a send whose request returned JSON with a string reply r has appended
\* exactly two messages, shown as "You: t" (t the input without surrounding
\* whitespace) and then "AI: r"; until the reply is in, it has appended the
\* user message alone.
C6_UserThenAssistant ==
  \A s \in DOMAIN sends :
    LET msgs == MessagesOf(s)
    IN  /\ Len(msgs) >= 1
        /\ IsTrimmed(sends[s].text, sends[s].typed)
        /\ TextContent(msgs[1].innerHTML) = <<"Y","o","u",":"," ">> (* You:  *) \o sends[s].text
        /\ msgs[1].classList = {<<"m","e","s","s","a","g","e">> (* message *), <<"u","s","e","r">> (* user *)}
        /\ sends[s].pc # "done" => Len(msgs) = 1
        /\ GotReply(s) =>
             /\ Len(msgs) = 2
             /\ TextContent(msgs[2].innerHTML) = <<"A","I",":"," ">> (* AI:  *) \o sends[s].outcome.data.reply
             /\ msgs[2].classList = {<<"m","e","s","s","a","g","e">> (* message *), <<"a","i">>}

\* " hello " was sent and answered "hi"
C6_Witness ==
  \E s \in DOMAIN sends :
    /\ GotReply(s)
    /\ sends[s].typed = <<" ","h","e","l","l","o"," ">> (*  hello  *)
    /\ sends[s].outcome.data.reply = <<"h","i">>
    /\ TextContent(MessagesOf(s)[1].innerHTML) = <<"Y","o","u",":"," ","h","e","l","l","o">> (* You: hello *)
    /\ TextContent(MessagesOf(s)[2].innerHTML) = <<"A","I",":"," ","h","i">> (* AI: hi *)

\* C7: a send whose fetch was rejected has appended, after its user message,
\* one assistant message, the fixed apology; and the step that ends a send
\* leaves the button enabled and labelled "Send".
C7_RejectedFetch ==
  /\ [](\A s \in DOMAIN sends :
          sends[s].pc = "done" /\ sends[s].outcome.kind = "reject" =>
            /\ Len(MessagesOf(s)) = 2
            /\ MessagesOf(s)[2].classList = {<<"m","e","s","s","a","g","e">> (* message *), <<"a","i">>}
            /\ TextContent(MessagesOf(s)[2].innerHTML) =
                 <<"A","I",":"," ","S","o","r","r","y",","," ","s","o","m","e","t","h","i","n","g"," ","w","e","n","t"," ","w","r","o","n","g"," ","w","h","i","l","e"," ","c","o","n","t","a","c","t","i","n","g"," ","t","h","e"," ","a","s","s","i","s","t","a","n","t",".">> (* AI: Sorry, something went wrong while contacting the assistant. *))
  /\ [][\A s \in DOMAIN sends :
          sends[s].pc # "done" /\ sends'[s].pc = "done" =>
            sendBtn' = [disabled |-> FALSE, textContent |-> <<"S","e","n","d">> (* Send *)]]_vars

\* a fetch has just been rejected while the button showed "Sending..."
C7_Witness ==
  /\ chatEvent = "fetch"
  /\ \E s \in DOMAIN sends : sends[s].pc = "done" /\ sends[s].outcome.kind = "reject"
  /\ sendBtn = [disabled |-> FALSE, textContent |-> <<"S","e","n","d">> (* Send *)]

\* the entity that stands for a character
Entity(c) ==
  CASE c = "&" -> <<"&","a","m","p",";">> (* &amp; *)
    [] c = "<" -> <<"&","l","t",";">> (* &lt; *)
    [] c = ">" -> <<"&","g","t",";">> (* &gt; *)
    [] OTHER -> <<c>>

EachCharEscaped(s) == Concat([k \in 1..Len(s) |-> Entity(s[k])])

MessagePrefix(m) ==
  IF m.classList = {<<"m","e","s","s","a","g","e">> (* message *), <<"u","s","e","r">> (* user *)} THEN <<"<","b",">","Y","o","u",":","<","/","b",">"," ">> (* <b>You:</b>  *) ELSE <<"<","b",">","A","I",":","<","/","b",">"," ">> (* <b>AI:</b>  *)

\* what follows "<b>sender:</b> " in the message
MessageBody(m) == SubSeq(m.innerHTML, Len(MessagePrefix(m)) + 1, Len(m.innerHTML))

\* C8: in every message of the chatbox the text appears with each "&", "<"
\* and ">" replaced by its entity (the entities themselves not escaped again),
\* so with no raw "<" or ">", and it reads back as the text; "<script>"
\* appears as "&lt;script&gt;".
C8_Escaped ==
  \A k \in DOMAIN chatbox :
    LET m == chatbox[k]
        body == MessageBody(m)
    IN  /\ StartsWith(m.innerHTML, MessagePrefix(m))
        /\ body = EachCharEscaped(m.text)
        /\ \A j \in DOMAIN body : body[j] \notin {"<", ">"}
        /\ TextContent(body) = m.text
        /\ m.text = <<"<","s","c","r","i","p","t",">">> (* <script> *) => body = <<"&","l","t",";","s","c","r","i","p","t","&","g","t",";">> (* &lt;script&gt; *)

C8_Witness ==
  \E k \in DOMAIN chatbox :
    /\ chatbox[k].text = <<"<","s","c","r","i","p","t",">">> (* <script> *)
    /\ chatbox[k].innerHTML = <<"<","b",">","Y","o","u",":","<","/","b",">"," ","&","l","t",";","s","c","r","i","p","t","&","g","t",";">> (* <b>You:</b> &lt;script&gt; *)

----------------------------------------------------------------------------
(* Properties of the optional keys of the environment *)

RequiredAllSet == \A i \in 1..Len(RequiredKeys) : ~Falsy(importMetaEnv[RequiredKeys[i]])

\* C11: once the modules have loaded with every required key set, startup has
\* succeeded whatever optional keys are absent; the scope of env and of the
\* auth client is "itwin-platform" when VITE_ITWIN_SCOPE is absent and the
\* supplied value otherwise, the authority is "https://ims.bentley.com" when
\* VITE_ITWIN_AUTHORITY is absent and the supplied value otherwise; a startup
\* that failed had a required key unset.
C11_OptionalDefaults ==
  boot # "loading" =>
    /\ RequiredAllSet =>
          /\ boot = "running" /\ startupError = NoError
          /\ env.scope = IF Missing(VITE_ITWIN_SCOPE) THEN <<"i","t","w","i","n","-","p","l","a","t","f","o","r","m">> (* itwin-platform *)
                          ELSE importMetaEnv[VITE_ITWIN_SCOPE]
          /\ env.authority = IF Missing(VITE_ITWIN_AUTHORITY) THEN <<"h","t","t","p","s",":","/","/","i","m","s",".","b","e","n","t","l","e","y",".","c","o","m">> (* https://ims.bentley.com *)
                              ELSE importMetaEnv[VITE_ITWIN_AUTHORITY]
          /\ authClient.scope = env.scope
          /\ authClient.authority = env.authority
    /\ boot = "failed" => ~RequiredAllSet

\* startup succeeded with no optional key but the authority
C11_Witness ==
  /\ boot = "running"
  /\ \A k \in OptionalKeys \ {VITE_ITWIN_AUTHORITY} : Missing(k)
  /\ importMetaEnv[VITE_ITWIN_AUTHORITY] = <<"h","t","t","p","s",":","/","/","i","d","p">> (* https://idp *)
  /\ authClient.scope = <<"i","t","w","i","n","-","p","l","a","t","f","o","r","m">> (* itwin-platform *)
  /\ authClient.authority = <<"h","t","t","p","s",":","/","/","i","d","p">> (* https://idp *)

----------------------------------------------------------------------------
(* Properties of the auth wrappers *)

\* C12: every call of signIn, signOut or handleSigninCallback has invoked the
\* client's method of the same name once and no other; its promise is pending
\* while the client's is, resolved when the client's resolved, and rejected
\* with the client's error when the client's rejected; no step invokes the
\* client again for the call, and a settled call never changes.
C12_WrapperPassthrough ==
  /\ [](\A a \in DOMAIN authCalls :
          LET w == authCalls[a]
          IN  /\ w.invoked = <<w.fn>>
              /\ w.result.kind = w.client.kind
              /\ w.client.kind = "reject" => w.result.message = w.client.message
              /\ w.client.kind = "resolve" => w.result.kind # "reject")
  /\ [][\A a \in DOMAIN authCalls :
          /\ authCalls'[a].invoked = authCalls[a].invoked
          /\ authCalls[a].client # Pending => authCalls'[a] = authCalls[a]]_vars

\* a signIn rejected with "denied" and a handleSigninCallback resolved
C12_Witness ==
  \E a, b \in DOMAIN authCalls :
    /\ authCalls[a].fn = <<"s","i","g","n","I","n">> (* signIn *)
    /\ authCalls[a].invoked = <<<<"s","i","g","n","I","n">> (* signIn *)>>
    /\ authCalls[a].result = [kind |-> "reject", message |-> <<"d","e","n","i","e","d">> (* denied *)]
    /\ authCalls[b].fn = <<"h","a","n","d","l","e","S","i","g","n","i","n","C","a","l","l","b","a","c","k">> (* handleSigninCallback *)
    /\ authCalls[b].result.kind = "resolve"

----------------------------------------------------------------------------
(* Properties of the route table and of the shell's nav *)

SameLetter(a, b) ==
  a = b \/ \E i \in DOMAIN UpperCase : {a, b} = {UpperCase[i], LowerCase[i]}

\* pathname p is q, up to the case of the letters and slashes at the end of p
SamePath(p, q) ==
  /\ Len(p) >= Len(q)
  /\ \A j \in 1..Len(q) : SameLetter(p[j], q[j])
  /\ \A j \in (Len(q) + 1)..Len(p) : p[j] = "/"

RouteTable ==
  << [path |-> SigninCallbackPath, shell |-> FALSE, page |-> "SigninCallback"],
     [path |-> AppPath, shell |-> TRUE, page |-> "Dashboard"],
     [path |-> ViewerPath, shell |-> TRUE, page |-> "Viewer"],
     [path |-> ActivityPath, shell |-> TRUE, page |-> "Activity"],
     [path |-> SettingsPath, shell |-> TRUE, page |-> "Settings"] >>

MountedCallback == \E i \in DOMAIN cb : cb[i].status = "mounted"

\* C13, as stated: the five paths are routed to their views, and every other
\* path is routed to the "Not found" view.
C13_OtherPathsNotFound ==
  boot = "running" =>
    /\ \A k \in DOMAIN RouteTable :
         location = RouteTable[k].path =>
           view.page = RouteTable[k].page /\ view.shell = RouteTable[k].shell
    /\ (\A k \in DOMAIN RouteTable : location # RouteTable[k].path) =>
         view.page = "NotFound" /\ ~view.shell

\* C13, amended: the router renders one view at every pathname; a pathname
\* that is one of the five paths, up to the case of its letters and slashes at
\* its end, is routed to that path's view (the callback page without the
\* shell, the four pages inside the shell); every other pathname, "/"
\* included, is routed to the "Not found" view without the shell; the Viewer
\* and the callback page are mounted exactly at their routes.
C13_RouteTable ==
  boot = "running" =>
    /\ \A k \in DOMAIN RouteTable :
         SamePath(location, RouteTable[k].path) =>
           view.page = RouteTable[k].page /\ view.shell = RouteTable[k].shell
    /\ (\A k \in DOMAIN RouteTable : ~SamePath(location, RouteTable[k].path)) =>
         view.page = "NotFound" /\ ~view.shell
    /\ location = <<"/">> => view.page = "NotFound"
    /\ viewer.mounted <=> view.page = "Viewer"
    /\ MountedCallback <=> view.page = "SigninCallback"

\* the browser was sent to "/app/" and the Dashboard is shown in the shell
C13_Witness ==
  /\ lastEvent.kind = "navigate"
  /\ location = <<"/","a","p","p","/">> (* /app/ *)
  /\ view.page = "Dashboard" /\ view.shell

Labels(set) == {NavItems[k].label : k \in set}

\* the nav items whose target is a prefix of pathname p, letter for letter
PrefixItems(p) ==
  {k \in DOMAIN NavItems :
     /\ Len(NavItems[k].to) <= Len(p)
     /\ \A j \in 1..Len(NavItems[k].to) : p[j] = NavItems[k].to[j]}

----------------------------------------------------------------------------
(* Properties of the shell's buttons *)

\* C15: the step in which a signIn or signOut started from a button of the
\* shell rejects leaves the location, the rendered view, the Viewer's selected
\* hotspot and every callback page (so every displayed text) as they were,
\* starts no call, and the rejection is reported as unhandled: nothing caught it.
C15_RejectionChangesNothing ==
  [][\A a \in DOMAIN authCalls :
       /\ authCalls[a].from = "button"
       /\ authCalls[a].result = Pending
       /\ authCalls'[a].result.kind = "reject"
       => /\ location' = location
          /\ view' = view
          /\ viewer' = viewer
          /\ cb' = cb
          /\ calls' = calls
          /\ Len(authCalls') = Len(authCalls)
          /\ lastEvent' = Event("unhandledrejection", authCalls[a].fn)]_vars

\* a signOut has just rejected with the second hotspot selected in the Viewer
C15_Witness ==
  /\ lastEvent = Event("unhandledrejection", <<"s","i","g","n","O","u","t">> (* signOut *))
  /\ location = ViewerPath
  /\ view.page = "Viewer"
  /\ viewer.selected = DEFAULT_HOTSPOTS[2]
  /\ \E a \in DOMAIN authCalls :
       authCalls[a].from = "button" /\ authCalls[a].result.kind = "reject"

----------------------------------------------------------------------------
(* Properties of overlapping sends *)

UserMessages(s) == SelectSeq(MessagesOf(s), LAMBDA m : m.classList = {<<"m","e","s","s","a","g","e">> (* message *), <<"u","s","e","r">> (* user *)})
AiMessages(s) == SelectSeq(MessagesOf(s), LAMBDA m : m.classList = {<<"m","e","s","s","a","g","e">> (* message *), <<"a","i">>})

\* C16: whatever sends are in flight together and in whatever order their
\* responses arrive, every send has appended one "You" message, with its own
\* text, and after it one "AI" message once it has ended (none before), whose
\* text is its own reply or the fallback; and no step changes or removes a
\* message that is in the chatbox.
C16_OverlapIndependent ==
  /\ [](\A s \in DOMAIN sends :
          LET msgs == MessagesOf(s)
          IN  /\ Len(UserMessages(s)) = 1
              /\ Len(AiMessages(s)) = IF sends[s].pc = "done" THEN 1 ELSE 0
              /\ Len(msgs) = Len(UserMessages(s)) + Len(AiMessages(s))
              /\ msgs[1] = UserMessages(s)[1]
              /\ msgs[1].text = sends[s].text
              /\ msgs[1].innerHTML = <<"<","b",">","Y","o","u",":","<","/","b",">"," ">> (* <b>You:</b>  *) \o EachCharEscaped(sends[s].text)
              /\ sends[s].pc = "done" =>
                    /\ msgs[2].text = IF GotReply(s) THEN sends[s].outcome.data.reply
                                       ELSE Fallback
                    /\ msgs[2].innerHTML = <<"<","b",">","A","I",":","<","/","b",">"," ">> (* <b>AI:</b>  *) \o EachCharEscaped(msgs[2].text))
  /\ [][\A k \in DOMAIN chatbox :
          k \in DOMAIN chatbox' /\ chatbox'[k] = chatbox[k]]_vars

\* two sends were in flight together and the second one ended first, with the
\* reply "hi"; the first ended with the fallback
C16_Witness ==
  /\ Len(chatbox) = 4
  /\ chatbox[1].send = 1 /\ chatbox[2].send = 2
  /\ chatbox[3].send = 2 /\ chatbox[3].text = <<"h","i">>
  /\ chatbox[4].send = 1 /\ chatbox[4].text = Fallback
  /\ sends[1].text # sends[2].text

----------------------------------------------------------------------------
(* Properties of a callback page whose call does not settle *)

\* C17: as long as the call of handleSigninCallback a callback page made is
\* pending, the page shows "Signing you in..." and has shown nothing else,
\* has not navigated and shows no failure, whatever renders and other pages'
\* steps happen meanwhile; the page leaves that state only in the step that
\* settles its call.
C17_PendingStaysPending ==
  /\ [](\A c \in DOMAIN calls :
          calls[c].promise = "pending" =>
            LET page == cb[calls[c].inst]
            IN  /\ page.msg = InitialMsg
                /\ page.displayed = {InitialMsg}
                /\ ~page.navigated
                /\ ~ShowsFailure(page.msg)
                /\ PageState(calls[c].inst) = "pending")
  /\ [][\A c \in DOMAIN calls :
          calls[c].promise = "pending" /\ calls'[c].promise = "pending" =>
            /\ cb'[calls[c].inst].msg = cb[calls[c].inst].msg
            /\ cb'[calls[c].inst].navigated = cb[calls[c].inst].navigated]_vars

\* a page whose call is pending has just been rendered again, the call of an
\* earlier page having been rejected meanwhile
C17_Witness ==
  \E c, d \in DOMAIN calls :
    /\ d < c
    /\ calls[d].promise = "rejected"
    /\ calls[c].promise = "pending"
    /\ cb[calls[c].inst].status = "mounted"
    /\ cb[calls[c].inst].msg = InitialMsg
    /\ lastEvent = Event("rerender", <<"S","i","g","n","i","n","C","a","l","l","b","a","c","k">> (* SigninCallback *))

----------------------------------------------------------------------------
(* Properties of the chat request *)

\* the number of backslashes that stand right before position k of v
BackslashRun(v, k) ==
  CHOOSE n \in 0..(k - 1) :
    /\ \A j \in (k - n)..(k - 1) : v[j] = "\\"
    /\ n = k - 1 \/ v[k - n - 1] # "\\"

\* position k of the JSON string content v is the character of an escape
Escaped(v, k) == BackslashRun(v, k) % 2 = 1

\* position k is the backslash that starts an escape
StartsEscape(v, k) == v[k] = "\\" /\ ~Escaped(v, k)

Unescape(c) ==
  CASE c = "n" -> "\n"
    [] c = "t" -> "\t"
    [] OTHER -> c

\* v is the content of a JSON string: quotes and control characters only
\* escaped, every escape complete
IsJsonStringContent(v) ==
  \A k \in 1..Len(v) :
    /\ v[k] = "\"" => Escaped(v, k)
    /\ v[k] \notin {"\n", "\t"}
    /\ StartsEscape(v, k) => k < Len(v) /\ v[k + 1] \in {"\"", "\\", "n", "t"}

\* JSON.parse of a string content
JsonStringValue(v) ==
  Concat([k \in 1..Len(v) |->
     IF StartsEscape(v, k) THEN <<>>
     ELSE IF Escaped(v, k) THEN <<Unescape(v[k])>>
     ELSE <<v[k]>>])

\* body is the JSON text of an object whose only property, message, is t
IsMessageBody(body, t) ==
  LET open == <<"{","\"","m","e","s","s","a","g","e","\"",":">> \o <<"\"">>
      close == <<"\"">> \o <<"}">>
      inner == SubSeq(body, Len(open) + 1, Len(body) - Len(close))
  IN  /\ Len(body) >= Len(open) + Len(close)
      /\ SubSeq(body, 1, Len(open)) = open
      /\ SubSeq(body, Len(body) - Len(close) + 1, Len(body)) = close
      /\ IsJsonStringContent(inner)
      /\ JsonStringValue(inner) = t

RequestsOf(s) == {k \in DOMAIN requests : requests[k].send = s}

\* C18: every send past the guards has issued one request: a POST to /chat,
\* declared as JSON, whose body is the JSON text of {message: t}, t being the
\* input without its surrounding whitespace (and not empty); a step that
\* starts no send issues no request, whatever the outcome it delivers.
C18_OneRequestPerSend ==
  /\ [](/\ \A s \in DOMAIN sends :
             /\ Cardinality(RequestsOf(s)) = 1
             /\ \A k \in RequestsOf(s) :
                  LET req == requests[k].request
                  IN  /\ req.url = <<"/","c","h","a","t">> (* /chat *)
                      /\ req.method = <<"P","O","S","T">> (* POST *)
                      /\ req.headers.ContentType = <<"a","p","p","l","i","c","a","t","i","o","n","/","j","s","o","n">> (* application/json *)
                      /\ IsMessageBody(req.body, sends[s].text)
             /\ IsTrimmed(sends[s].text, sends[s].typed)
             /\ sends[s].text # <<>>
         /\ Len(requests) = Len(sends))
  /\ [][Len(sends') = Len(sends) => requests' = requests]_vars

\* the fetch of a send was rejected and its one request stays the only one;
\* the text had a quote and a backslash
C18_Witness ==
  \E s \in DOMAIN sends :
    /\ sends[s].pc = "done"
    /\ sends[s].outcome.kind = "reject"
    /\ Len(MessagesOf(s)) = 2
    /\ \A k \in RequestsOf(s) : requests[k].request.body = <<"{","\"","m","e","s","s","a","g","e","\"",":","\"","<","\\","\"","a","\\","\\","&","\"","}">>
    /\ Cardinality(RequestsOf(s)) = 1

----------------------------------------------------------------------------
(* Properties of the send button and of the assistant's message *)

InFlight == {s \in DOMAIN sends : sends[s].pc # "done"}

\* C19: whenever a request of some send is in flight, the send button is
\* disabled and labelled "Sending...".
C19_DisabledWhileInFlight ==
  InFlight # {} => sendBtn = [disabled |-> TRUE, textContent |-> <<"S","e","n","d","i","n","g",".",".",".">> (* Sending... *)]

\* C20: every send that has ended has appended one assistant message, none
\* before it ended: its HTML is "<b>AI:</b> " and the reply, each of &, < and >
\* as its entity, when the response was JSON with a string reply, and
\* "<b>AI:</b> " and the fixed apology when the fetch was rejected, the body
\* was no JSON, or the JSON was null or had no string reply; it is never
\* "<b>AI:</b> undefined".
C20_OneAssistantMessage ==
  \A s \in DOMAIN sends :
    IF sends[s].pc # "done" THEN AiMessages(s) = <<>>
    ELSE LET o == sends[s].outcome
             shown == AiMessages(s)[1].innerHTML
         IN  /\ Len(AiMessages(s)) = 1
             /\ GotReply(s) => shown = <<"<","b",">","A","I",":","<","/","b",">"," ">> (* <b>AI:</b>  *) \o EachCharEscaped(o.data.reply)
             /\ (o.kind = "reject" \/ ~o.json \/ o.data.null \/ ~IsString(o.data.reply)) =>
                   shown = <<"<","b",">","A","I",":","<","/","b",">"," ">> (* <b>AI:</b>  *) \o Fallback
             /\ shown # <<"<","b",">","A","I",":","<","/","b",">"," ","u","n","d","e","f","i","n","e","d">> (* <b>AI:</b> undefined *)

\* a response whose JSON has no reply ended with the apology
C20_Witness ==
  \E s \in DOMAIN sends :
    /\ sends[s].pc = "done"
    /\ sends[s].outcome.json /\ ~sends[s].outcome.data.null
    /\ sends[s].outcome.data.reply = Undefined
    /\ Len(AiMessages(s)) = 1
    /\ AiMessages(s)[1].text = Fallback

----------------------------------------------------------------------------
(* Properties of a send that is not accepted *)

\* nothing but whitespace, or nothing at all
Blank(s) == \A k \in 1..Len(s) : s[k] \in Whitespace

ElementMissing == ~dom.inputEl \/ ~dom.chatboxEl \/ ~dom.sendBtn

\* C21: an Enter with the input blank, or with one of the three elements not
\* in the page, appends no message, issues no request, starts no send and
\* leaves the input's text and the button's disabled flag and label as they
\* were; an Enter with a text that is not blank and every element in the
\* page starts a send.
C21_BlankSendNoOp ==
  [][chatEvent' = "enter" =>
       IF Blank(inputValue) \/ ElementMissing
       THEN /\ chatbox' = chatbox
            /\ requests' = requests
            /\ sends' = sends
            /\ inputValue' = inputValue
            /\ sendBtn' = sendBtn
       ELSE Len(sends') = Len(sends) + 1]_vars

\* Enter was pressed on an input of two spaces, after a send that is still
\* in flight: the button still reads "Sending..."
C21_Witness ==
  /\ chatEvent = "enter"
  /\ inputValue = <<" "," ">>
  /\ Len(sends) = 1 /\ Len(chatbox) = 1 /\ Len(requests) = 1
  /\ sendBtn = [disabled |-> TRUE, textContent |-> <<"S","e","n","d","i","n","g",".",".",".">> (* Sending... *)]

----------------------------------------------------------------------------
(* push_to_github.js: pushToGitHub and its two calls of getAccessToken *)

TokenValues == {Undefined, <<>>, <<"g","h","p","_","a">> (* ghp_a *)}
OauthValues == {Undefined, <<"g","h","o","_","b">> (* gho_b *)}
ExpiresValues == {Undefined, <<>>, <<"s","o","o","n">> (* soon *)} \cup {IsoString(t) : t \in 0..MaxTime}

Connections ==
  {Connection(NoSettings)} \cup
  {Connection(Settings(t, e, o)) : t \in TokenValues, e \in ExpiresValues, o \in OauthValues}

FetchFailed == <<"f","e","t","c","h"," ","f","a","i","l","e","d">> (* fetch failed *)
BadJson == <<"U","n","e","x","p","e","c","t","e","d"," ","t","o","k","e","n"," ","'","<","'",","," ","\\","\"","<","!","D","O","C","T","Y","P","E"," ","\\","\"",".",".","."," ","i","s"," ","n","o","t"," ","v","a","l","i","d"," ","J","S","O","N">>
BadCredentials == <<"B","a","d"," ","c","r","e","d","e","n","t","i","a","l","s">> (* Bad credentials *)

\* how the request to the connector ends: fetch rejects, res.json() rejects,
\* or the body is parsed to data
ConnectorOutcomes ==
  {[kind |-> "rejected", message |-> FetchFailed, data |-> NullData],
   [kind |-> "rejected", message |-> BadJson, data |-> NullData],
   [kind |-> "data", message |-> NoError, data |-> NullData],
   [kind |-> "data", message |-> NoError, data |-> NoItems],
   [kind |-> "data", message |-> NoError, data |-> EmptyItems]} \cup
  {[kind |-> "data", message |-> NoError, data |-> Items(c)] : c \in Connections}

ProcessEnvs == [REPL_IDENTITY : {Undefined, <<"i","d">>}, WEB_REPL_RENEWAL : {Undefined, <<"r","n">>}]

\* getAccessToken up to its await: the cached path, the missing header, or
\* the request to the connector sent
beginToken(c, now, penv) ==
  LET k == cached(c, now)
  IN  IF k.threw THEN [fetch |-> FALSE, result |-> Thrown(k.message)]
      ELSE IF k.value THEN [fetch |-> FALSE, result |-> Returned(c.settings.access_token)]
      ELSE IF xReplitToken(penv) = JsNull
           THEN [fetch |-> FALSE, result |-> Thrown(NoReplitToken)]
           ELSE [fetch |-> TRUE, result |-> Returned(Undefined)]

\* no request has ended
NoAnswer == [kind |-> "none", message |-> NoError, data |-> NullData]

\* an invocation of getAccessToken, as tokenCalls records it
TokenCall(c, now, b) ==
  [cache |-> c, now |-> now, fetched |-> b.fetch, answer |-> NoAnswer, done |-> ~b.fetch,
   result |-> b.result]

ErrorLine(text) == [level |-> "error", text |-> text]
LogLine(text) == [level |-> "log", text |-> text]

\* the outer catch block of pushToGitHub
catchError(message) ==
  <<ErrorLine(<<"U+274C"," ","E","r","r","o","r",":"," ">> (* ... Error:  *) \o message)>> \o
  (IF Includes(message, NotConnected)
   THEN <<ErrorLine(<<"P","l","e","a","s","e"," ","s","e","t"," ","u","p"," ","G","i","t","H","u","b"," ","i","n","t","e","g","r","a","t","i","o","n"," ","i","n"," ","R","e","p","l","i","t"," ","f","i","r","s","t">> (* Please set up GitHub integration in Replit first *))>>
   ELSE <<>>)

\* pushToGitHub from the first await on, the token call having ended with r
afterFirstToken(r) ==
  IF r.threw
  THEN [pc |-> "exited", lines |-> catchError(r.message), exit |-> <<1>>]
  ELSE [pc |-> "gitInfo", lines |-> <<LogLine(<<"U+2705"," ","G","i","t","H","u","b"," ","a","u","t","h","e","n","t","i","c","a","t","e","d">> (* ... GitHub authenticated *))>>, exit |-> <<>>]

\* pushToGitHub from the await in getUncachableGitHubClient on
afterSecondToken(r) ==
  IF r.threw
  THEN [pc |-> "exited", lines |-> catchError(r.message), exit |-> <<1>>]
  ELSE [pc |-> "user", lines |-> <<>>, exit |-> <<>>]

afterToken(n, r) == IF n = 1 THEN afterFirstToken(r) ELSE afterSecondToken(r)

\* the n-th call of getAccessToken begins, after `lines` have been written
callToken(n, lines) ==
  LET b == beginToken(connectionSettings, clock, processEnv)
      next == afterToken(n, b.result)
  IN  /\ tokenCalls' = Append(tokenCalls, TokenCall(connectionSettings, clock, b))
      /\ IF b.fetch
         THEN /\ pushPc' = "fetch"
              /\ console' = console \o lines
              /\ exitCode' = exitCode
         ELSE /\ pushPc' = next.pc
              /\ console' = console \o lines \o next.lines
              /\ exitCode' = next.exit

\* the script is run: pushToGitHub up to its first await
PushStart ==
  /\ pushPc = "idle"
  /\ callToken(1, <<>>)
  /\ UNCHANGED <<connectionSettings, clock, processEnv, gitPushes>>
  /\ UNCHANGED <<appVars, chatVars, deployVars, n8nVars, analyticsVars>>

\* the request to the connector ends
ConnectorSettles(o) ==
  /\ pushPc = "fetch"
  /\ LET n == Len(tokenCalls)
         first == IF o.kind = "rejected" THEN Thrown(o.message) ELSE firstItem(o.data)
         r == IF first.threw THEN Thrown(first.message) ELSE afterFetch(first.value)
         next == afterToken(n, r)
     IN  /\ connectionSettings' = IF first.threw THEN connectionSettings ELSE first.value
         /\ tokenCalls' = [tokenCalls EXCEPT ![n].answer = o, ![n].done = TRUE, ![n].result = r]
         /\ pushPc' = next.pc
         /\ console' = console \o next.lines
         /\ exitCode' = next.exit
  /\ UNCHANGED <<clock, processEnv, gitPushes>>
  /\ UNCHANGED <<appVars, chatVars, deployVars, n8nVars, analyticsVars>>

GitInfoFailed == <<"C","o","m","m","a","n","d"," ","f","a","i","l","e","d",":"," ","g","i","t"," ","b","r","a","n","c","h"," ","-","-","s","h","o","w","-","c","u","r","r","e","n","t">> (* Command failed: git branch --show-current *)

\* the two git commands of the status block have run, and
\* getUncachableGitHubClient calls getAccessToken
GitInfo(ok) ==
  /\ pushPc = "gitInfo"
  /\ callToken(2, IF ok THEN <<>>
                  ELSE <<ErrorLine(<<"E","r","r","o","r"," ","g","e","t","t","i","n","g"," ","g","i","t"," ","i","n","f","o",":"," ">> (* Error getting git info:  *) \o GitInfoFailed)>>)
  /\ UNCHANGED <<connectionSettings, clock, processEnv, gitPushes>>
  /\ UNCHANGED <<appVars, chatVars, deployVars, n8nVars, analyticsVars>>

Login == <<"g","e","m">>
PushFailed == <<"C","o","m","m","a","n","d"," ","f","a","i","l","e","d",":"," ","g","i","t"," ","p","u","s","h">> (* Command failed: git push *)

UserOutcomes == {"rejected", "pushed", "pushFailed"}

\* octokit.users.getAuthenticated() ends; when it resolves, git push is run
\* with the token of the first call in its URL
UserSettles(o) ==
  /\ pushPc = "user"
  /\ IF o = "rejected"
     THEN /\ console' = console \o catchError(BadCredentials)
          /\ exitCode' = <<1>>
          /\ pushPc' = "exited"
          /\ UNCHANGED gitPushes
     ELSE /\ gitPushes' = Append(gitPushes, [login |-> Login,
                                             token |-> tokenCalls[1].result.value,
                                             ok |-> o = "pushed"])
          /\ IF o = "pushed"
             THEN /\ console' = console \o
                                 <<LogLine(<<"U+2705"," ","S","U","C","C","E","S","S","!"," ","A","l","l"," ","f","i","l","e","s"," ","p","u","s","h","e","d"," ","t","o"," ","G","i","t","H","u","b">> (* ... SUCCESS! All files pushed to GitHub *))>>
                  /\ exitCode' = exitCode
                  /\ pushPc' = "done"
             ELSE /\ console' = console \o
                                 <<ErrorLine(<<"U+274C"," ","P","u","s","h"," ","f","a","i","l","e","d",":"," ">> (* ... Push failed:  *) \o PushFailed)>>
                  /\ exitCode' = <<1>>
                  /\ pushPc' = "exited"
  /\ UNCHANGED <<connectionSettings, clock, processEnv, tokenCalls>>
  /\ UNCHANGED <<appVars, chatVars, deployVars, n8nVars, analyticsVars>>

\* a millisecond passes while the script runs
Tick ==
  /\ pushPc \in {"fetch", "gitInfo", "user"}
  /\ clock < MaxTime
  /\ clock' = clock + 1
  /\ UNCHANGED <<connectionSettings, processEnv, pushPc, tokenCalls, console, exitCode,
                 gitPushes>>
  /\ UNCHANGED <<appVars, chatVars, deployVars, n8nVars, analyticsVars>>

PushInit ==
  /\ AppNotLoaded
  /\ ChatIdle
  /\ dom = AllElements
  /\ connectionSettings = NullConnection
  /\ clock = 0
  /\ processEnv \in ProcessEnvs
  /\ pushPc = "idle"
  /\ tokenCalls = <<>>
  /\ console = <<>>
  /\ exitCode = <<>>
  /\ gitPushes = <<>>
  /\ DeployIdle
  /\ N8NIdle
  /\ AnalyticsIdle

PushNext ==
  \/ PushStart
  \/ \E o \in ConnectorOutcomes : ConnectorSettles(o)
  \/ \E ok \in BOOLEAN : GitInfo(ok)
  \/ \E o \in UserOutcomes : UserSettles(o)
  \/ Tick

SpecPush == PushInit /\ [][PushNext]_vars

----------------------------------------------------------------------------
(* deploy.sh: the script runs under set -e, so a command that fails outside *)
(* an && / || list ends it with the command's status                        *)

Branches == {<<"m","a","i","n">> (* main *), <<"r","e","p","l","i","t","-","a","g","e","n","t">> (* replit-agent *)}
Choices == {<<"1">>, <<"2">>, <<"3">>, <<"4">>, <<>>}
Usernames == {<<"g","e","m">>, <<>>}
Tokens == {<<"g","h","p","_","x">> (* ghp_x *), <<>>}

\* read reached the end of its input
Eof == <<"eof">>

\* the status of a git command that failed
GitFailed == 128

\* the script ends with the status of the command that failed
exits(status) ==
  /\ deployPc' = "exited"
  /\ exitStatus' = <<status>>

RepositoryUrl == <<"g","i","t","h","u","b",".","c","o","m","/","s","u","p","p","o","r","t","3","7","1","/","G","e","m","A","s","s","i","s","t","-","1",".","g","i","t">> (* github.com/support371/GemAssist-1.git *)

\* lines 8-17: the banner and the check for app.py
DeployStart ==
  /\ deployPc = "idle"
  /\ IF ~files.appPy
     THEN /\ stdout' = stdout \o
                <<<<"U+274C"," ","E","r","r","o","r",":"," ","a","p","p",".","p","y"," ","n","o","t"," ","f","o","u","n","d","."," ","P","l","e","a","s","e"," ","r","u","n"," ","f","r","o","m"," ","p","r","o","j","e","c","t"," ","r","o","o","t"," ","d","i","r","e","c","t","o","r","y">> (* ... Error: app.py not found. Please run from project root directory *)>>
          /\ exits(1)
     ELSE /\ stdout' = stdout
          /\ deployPc' = "status"
          /\ UNCHANGED exitStatus
  /\ UNCHANGED <<files, CURRENT_BRANCH, pushes>>
  /\ UNCHANGED <<appVars, chatVars, pushVars, n8nVars, analyticsVars>>

\* lines 20-35: git status piped to head, the branch read, the menu; `branch`
\* is what git branch --show-current writes, when it succeeds
GitStatus(ok, branch) ==
  /\ deployPc = "status"
  /\ IF ok
     THEN /\ CURRENT_BRANCH' = branch
          /\ stdout' = stdout \o <<<<"U+1F504"," ","C","u","r","r","e","n","t"," ","B","r","a","n","c","h",":"," ">> (* ... Current Branch:  *) \o branch>>
          /\ deployPc' = "choice"
          /\ UNCHANGED exitStatus
     ELSE /\ exits(GitFailed)
          /\ UNCHANGED <<CURRENT_BRANCH, stdout>>
  /\ UNCHANGED <<files, pushes>>
  /\ UNCHANGED <<appVars, chatVars, pushVars, n8nVars, analyticsVars>>

\* lines 35-42, 53-62, 68-71: CHOICE is read and the case branch is run up
\* to its first read, or to its end
ReadChoice(choice, keygenOk, catOk) ==
  /\ deployPc = "choice"
  /\ IF choice = Eof
     THEN /\ exits(1)
          /\ UNCHANGED <<stdout, files>>
     ELSE IF choice = <<"1">>
     THEN /\ stdout' = stdout \o
                <<<<"U+1F517"," ","U","s","i","n","g"," ","R","e","p","l","i","t"," ","G","i","t","H","u","b"," ","I","n","t","e","g","r","a","t","i","o","n">> (* ... Using Replit GitHub Integration *),
                  <<"T","h","e","n"," ","r","u","n",":"," ","g","i","t"," ","p","u","s","h"," ","o","r","i","g","i","n"," ">> (* Then run: git push origin  *) \o CURRENT_BRANCH \o <<":","m","a","i","n">> (* :main *)>>
          /\ deployPc' = "summary"
          /\ UNCHANGED <<exitStatus, files>>
     ELSE IF choice = <<"2">>
     THEN /\ stdout' = stdout \o <<<<"U+1F511"," ","U","s","i","n","g"," ","P","e","r","s","o","n","a","l"," ","A","c","c","e","s","s"," ","T","o","k","e","n">> (* ... Using Personal Access Token *)>>
          /\ deployPc' = "credentials"
          /\ UNCHANGED <<exitStatus, files>>
     ELSE IF choice = <<"3">>
     THEN IF ~files.sshKey /\ ~keygenOk
          THEN /\ stdout' = stdout \o <<<<"U+1F510"," ","U","s","i","n","g"," ","S","S","H"," ","K","e","y","s">> (* ... Using SSH Keys *), <<"G","e","n","e","r","a","t","i","n","g"," ","S","S","H"," ","k","e","y",".",".",".">> (* Generating SSH key... *)>>
               /\ exits(1)
               /\ UNCHANGED files
          ELSE /\ files' = [files EXCEPT !.sshKey = TRUE]
               /\ stdout' = stdout \o <<<<"U+1F510"," ","U","s","i","n","g"," ","S","S","H"," ","K","e","y","s">> (* ... Using SSH Keys *)>> \o
                     (IF files.sshKey THEN <<>> ELSE <<<<"G","e","n","e","r","a","t","i","n","g"," ","S","S","H"," ","k","e","y",".",".",".">> (* Generating SSH key... *)>>) \o
                     <<<<"U+1F4CB"," ","P","u","b","l","i","c"," ","K","e","y"," ","(","a","d","d"," ","t","o"," ","h","t","t","p","s",":","/","/","g","i","t","h","u","b",".","c","o","m","/","s","e","t","t","i","n","g","s","/","k","e","y","s",")",":">> (* ... Public Key (add to https://github.com/settings/keys): *)>>
               /\ IF catOk
                  THEN /\ deployPc' = "addKey"
                       /\ UNCHANGED exitStatus
                  ELSE exits(1)
     ELSE /\ stdout' = stdout \o <<<<"U+274C"," ","I","n","v","a","l","i","d"," ","c","h","o","i","c","e">> (* ... Invalid choice *)>>
          /\ exits(1)
          /\ UNCHANGED files
  /\ UNCHANGED <<CURRENT_BRANCH, pushes>>
  /\ UNCHANGED <<appVars, chatVars, pushVars, n8nVars, analyticsVars>>

\* cmd && echo ok || echo failed: the list succeeds whatever cmd does
pushList(url, force, ok, failed) ==
  /\ pushes' = Append(pushes, [url |-> url, refspec |-> CURRENT_BRANCH \o <<":","m","a","i","n">> (* :main *),
                                force |-> force, ok |-> ok])
  /\ stdout' = stdout \o
       <<IF ok THEN <<"U+2705"," ","S","u","c","c","e","s","s","f","u","l","l","y"," ","p","u","s","h","e","d"," ","t","o"," ","G","i","t","H","u","b","!">> (* ... Successfully pushed to GitHub! *) ELSE failed>>
  /\ deployPc' = "summary"
  /\ UNCHANGED exitStatus

\* lines 45-52: the username and the token are read and git push is run
ReadCredentials(username, token, ok) ==
  /\ deployPc = "credentials"
  /\ IF username = Eof \/ token = Eof
     THEN /\ exits(1)
          /\ UNCHANGED <<stdout, pushes>>
     ELSE pushList(<<"h","t","t","p","s",":","/","/">> (* https:// *) \o username \o <<":">> \o token \o <<"@">> \o RepositoryUrl,
                   TRUE, ok, <<"U+274C"," ","P","u","s","h"," ","f","a","i","l","e","d","."," ","C","h","e","c","k"," ","t","o","k","e","n"," ","a","n","d"," ","p","e","r","m","i","s","s","i","o","n","s",".">> (* ... Push failed. Check token and permissions. *))
  /\ UNCHANGED <<files, CURRENT_BRANCH>>
  /\ UNCHANGED <<appVars, chatVars, pushVars, n8nVars, analyticsVars>>

\* lines 62-67: enter is pressed, the remote is set and git push is run
AddKey(entered, setUrlOk, ok) ==
  /\ deployPc = "addKey"
  /\ IF ~entered
     THEN /\ exits(1)
          /\ UNCHANGED <<stdout, pushes>>
     ELSE IF ~setUrlOk
     THEN /\ exits(GitFailed)
          /\ UNCHANGED <<stdout, pushes>>
     ELSE pushList(<<"o","r","i","g","i","n">> (* origin *), FALSE, ok, <<"U+274C"," ","P","u","s","h"," ","f","a","i","l","e","d","."," ","C","h","e","c","k"," ","S","S","H"," ","k","e","y"," ","c","o","n","f","i","g","u","r","a","t","i","o","n",".">> (* ... Push failed. Check SSH key configuration. *))
  /\ UNCHANGED <<files, CURRENT_BRANCH>>
  /\ UNCHANGED <<appVars, chatVars, pushVars, n8nVars, analyticsVars>>

AllPushed == <<"U+2705"," ","A","l","l"," ","f","i","l","e","s"," ","p","u","s","h","e","d"," ","s","u","c","c","e","s","s","f","u","l","l","y","!">> (* ... All files pushed successfully! *)

\* lines 74-81: the summary, with git log between its lines
Summary(logOk) ==
  /\ deployPc = "summary"
  /\ IF logOk
     THEN /\ stdout' = stdout \o <<<<"U+1F4CA"," ","P","u","s","h"," ","S","t","a","t","u","s"," ","S","u","m","m","a","r","y",":">> (* ... Push Status Summary: *), AllPushed>>
          /\ deployPc' = "done"
          /\ UNCHANGED exitStatus
     ELSE /\ stdout' = stdout \o <<<<"U+1F4CA"," ","P","u","s","h"," ","S","t","a","t","u","s"," ","S","u","m","m","a","r","y",":">> (* ... Push Status Summary: *)>>
          /\ exits(GitFailed)
  /\ UNCHANGED <<files, CURRENT_BRANCH, pushes>>
  /\ UNCHANGED <<appVars, chatVars, pushVars, n8nVars, analyticsVars>>

DeployInit ==
  /\ AppNotLoaded
  /\ ChatIdle
  /\ dom = AllElements
  /\ PushIdle
  /\ deployPc = "idle"
  /\ files \in [appPy : BOOLEAN, sshKey : BOOLEAN]
  /\ CURRENT_BRANCH = <<>>
  /\ stdout = <<>>
  /\ exitStatus = <<>>
  /\ pushes = <<>>
  /\ N8NIdle
  /\ AnalyticsIdle

DeployNext ==
  \/ DeployStart
  \/ \E ok \in BOOLEAN, branch \in Branches : GitStatus(ok, branch)
  \/ \E choice \in Choices \cup {Eof}, keygenOk \in BOOLEAN, catOk \in BOOLEAN :
       ReadChoice(choice, keygenOk, catOk)
  \/ \E username \in Usernames \cup {Eof}, token \in Tokens \cup {Eof}, ok \in BOOLEAN :
       ReadCredentials(username, token, ok)
  \/ \E entered \in BOOLEAN, setUrlOk \in BOOLEAN, ok \in BOOLEAN :
       AddKey(entered, setUrlOk, ok)
  \/ \E logOk \in BOOLEAN : Summary(logOk)

SpecDeploy == DeployInit /\ [][DeployNext]_vars

----------------------------------------------------------------------------
(* the n8n client: triggerWorkflow and the three methods that call it *)

\* the bound of the number of calls
MaxCalls == 2

\* the result object of a successful POST
Success(data) == [success |-> TRUE, data |-> data, error |-> Undefined]

\* the result object of a failed POST; with success true the object has no
\* error property, with success false no data property
Failure(message) == [success |-> FALSE, data |-> Undefined, error |-> message]

Resolved(v) == [state |-> "resolved", value |-> v]
Rejected(m) == [state |-> "rejected", value |-> Failure(m)]
Unsettled == [state |-> "pending", value |-> Failure(Undefined)]

\* as settleTrigger, with no catch block
settleTriggerNoCatch(o) ==
  IF o.ok THEN Resolved(Success(o.data)) ELSE Rejected(o.message)

\* triggerWorkflow from the await on: the return of the try block, or of
\* the catch block
settleTrigger(o) ==
  IF o.ok THEN Resolved(Success(o.data)) ELSE Resolved(Failure(o.message))

WorkflowIds == {<<"m","y"," ","f","l","o","w">> (* my flow *), <<>>, Undefined}

\* an argument that is an array or an object, or is left out
NoArgument == [kind |-> "undefined", items |-> <<>>]
Array(items) == [kind |-> "array", items |-> items]
\* an object, as its properties in the order they are written
Object(props) == [kind |-> "object", items |-> props]

EmptyObject == Object(<<>>)
GeneratePayload(topic, platforms, now) ==
  Object(<<[key |-> "topic", value |-> topic],
    [key |-> "platforms", value |-> platforms],
    [key |-> "timestamp", value |-> IsoString(now)],
    [key |-> "source", value |-> <<"r","e","p","l","i","t">> (* replit *)]>>)
RSSPayload(feedUrl, action) ==
  Object(<<[key |-> "feed_url", value |-> feedUrl],
    [key |-> "action", value |-> action],
    [key |-> "output_format", value |-> <<"s","o","c","i","a","l","_","m","e","d","i","a">> (* social_media *)],
    [key |-> "source", value |-> <<"r","e","p","l","i","t">> (* replit *)]>>)
PipelinePayload(source, transformations) ==
  Object(<<[key |-> "pipeline", value |-> <<"r","e","p","l","i","t","-","d","a","t","a">> (* replit-data *)],
    [key |-> "source", value |-> source],
    [key |-> "transformations", value |-> transformations],
    [key |-> "output", value |-> <<"d","a","t","a","b","a","s","e">> (* database *)]>>)

Payloads == {Object(<<[key |-> "q", value |-> <<"x">>]>>)}

\* a parameter with a default value: an argument left out takes the default
Default(v, d) == IF v = NoArgument THEN d ELSE v
\* the same for a parameter that takes a string
DefaultString(v, d) == IF v = Undefined THEN d ELSE v

\* the POST has not ended
NoPost == [ok |-> FALSE, data |-> Undefined, message |-> NoError]

\* triggerWorkflow up to its await: one POST is handed to axios
triggerWorkflow(method, workflowId, data) ==
  /\ Len(workflowCalls) < MaxCalls
  /\ workflowCalls' = Append(workflowCalls,
       [method |-> method, workflowId |-> workflowId, settled |-> Unsettled])
  /\ posts' = Append(posts,
       [call |-> Len(workflowCalls) + 1, baseURL |-> n8n.baseURL,
        url |-> <<"/","w","e","b","h","o","o","k","/">> (* /webhook/ *) \o ToStr(workflowId), data |-> data,
        outcome |-> NoPost])
  /\ UNCHANGED n8n
  /\ UNCHANGED <<appVars, chatVars, pushVars, deployVars, analyticsVars>>

TriggerWorkflow(workflowId, data) ==
  triggerWorkflow("triggerWorkflow", workflowId, Default(data, EmptyObject))

Topics == {<<"a","i">>, Undefined}
PlatformLists == {NoArgument, Array(<<<<"t","w","i","t","t","e","r">> (* twitter *), <<"l","i","n","k","e","d","i","n">> (* linkedin *)>>)}

generateContent(topic, platforms, now) ==
  triggerWorkflow("generateContent", <<"c","o","n","t","e","n","t","-","g","e","n","e","r","a","t","o","r">> (* content-generator *),
                  GeneratePayload(topic, Default(platforms, Array(<<<<"t","w","i","t","t","e","r">> (* twitter *)>>)), now))

processRSS(feedUrl, action) ==
  triggerWorkflow("processRSS", <<"r","s","s","-","p","r","o","c","e","s","s","o","r">> (* rss-processor *),
                  RSSPayload(feedUrl, DefaultString(action, <<"s","u","m","m","a","r","i","z","e">> (* summarize *))))

dataPipeline(source, transformations) ==
  triggerWorkflow("dataPipeline", <<"d","a","t","a","-","p","i","p","e","l","i","n","e">> (* data-pipeline *),
                  PipelinePayload(source, Default(transformations, Array(<<<<"c","l","e","a","n">> (* clean *)>>))))

ResponseData == {Undefined, <<"q","u","e","u","e","d">> (* queued *)}
PostErrors == {<<"t","i","m","e","o","u","t"," ","o","f"," ","3","0","0","0","0","m","s"," ","e","x","c","e","e","d","e","d">> (* timeout of 30000ms exceeded *), <<"R","e","q","u","e","s","t"," ","f","a","i","l","e","d"," ","w","i","t","h"," ","s","t","a","t","u","s"," ","c","o","d","e"," ","4","0","4">> (* Request failed with status code 404 *)}

PostOutcomes ==
  {[ok |-> TRUE, data |-> d, message |-> NoError] : d \in ResponseData} \cup
  {[ok |-> FALSE, data |-> Undefined, message |-> m] : m \in PostErrors}

\* the POST of call c ends, and with it the call
PostSettles(c, o) ==
  /\ workflowCalls[c].settled = Unsettled
  /\ workflowCalls' = [workflowCalls EXCEPT ![c].settled = settleTrigger(o)]
  /\ posts' = [k \in DOMAIN posts |->
                 IF posts[k].call = c THEN [posts[k] EXCEPT !.outcome = o] ELSE posts[k]]
  /\ UNCHANGED n8n
  /\ UNCHANGED <<appVars, chatVars, pushVars, deployVars, analyticsVars>>

N8NInit ==
  /\ AppNotLoaded
  /\ ChatIdle
  /\ dom = AllElements
  /\ PushIdle
  /\ DeployIdle
  /\ n8n \in {ExportedClient(ip) : ip \in {Undefined, <<>>, <<"1","0",".","0",".","0",".","5">> (* 10.0.0.5 *)}}
  /\ workflowCalls = <<>>
  /\ posts = <<>>
  /\ AnalyticsIdle

N8NNext ==
  \/ \E id \in WorkflowIds, data \in Payloads \cup {NoArgument} : TriggerWorkflow(id, data)
  \/ \E topic \in Topics, platforms \in PlatformLists, now \in {1} :
       generateContent(topic, platforms, now)
  \/ \E feedUrl \in {<<"h","t","t","p",":","/","/","f","/","r","s","s">> (* http://f/rss *)}, action \in {Undefined, <<"p","o","s","t">> (* post *)} :
       processRSS(feedUrl, action)
  \/ \E source \in {<<"c","r","m">>}, transformations \in {NoArgument, Array(<<>>)} :
       dataPipeline(source, transformations)
  \/ \E c \in DOMAIN workflowCalls, o \in PostOutcomes : PostSettles(c, o)

SpecN8N == N8NInit /\ [][N8NNext]_vars

----------------------------------------------------------------------------
(* the analytics script: an IIFE that imports @vercel/analytics once the   *)
(* document is ready                                                       *)

\* the bound of the number of page loads
MaxLoads == 3

\* as stillLoading, the initialisation put off until the document is complete
stillLoadingUntilComplete(state) == state # "complete"

\* document.readyState === "loading"
stillLoading(state) == state = "loading"

WarnLine(text) == [level |-> "warn", text |-> text]

\* how import("@vercel/analytics") ends: rejected, or resolved to a module
\* whose inject is missing, is no function, is a function that returns, or
\* is a function that throws
ImportOutcomes ==
  {[kind |-> "rejected", inject |-> "undefined"]} \cup
  {[kind |-> "module", inject |-> i] : i \in {"undefined", "string", "function", "throws"}}

ImportFailed == <<"T","y","p","e","E","r","r","o","r",":"," ","F","a","i","l","e","d"," ","t","o"," ","r","e","s","o","l","v","e"," ","m","o","d","u","l","e"," ","s","p","e","c","i","f","i","e","r"," ","'","@","v","e","r","c","e","l","/","a","n","a","l","y","t","i","c","s","'">> (* TypeError: Failed to resolve module specifier '@vercel/analytics' *)
InjectFailed == <<"E","r","r","o","r",":"," ","i","n","j","e","c","t"," ","f","a","i","l","e","d">> (* Error: inject failed *)

\* the function handed to then
thenHandler(module) ==
  IF module.inject = "throws"
  THEN [threw |-> TRUE, error |-> InjectFailed, injected |-> TRUE, lines |-> <<>>]
  ELSE IF module.inject = "function"
  THEN [threw |-> FALSE, error |-> NoError, injected |-> TRUE,
        lines |-> <<LogLine(<<"V","e","r","c","e","l"," ","W","e","b"," ","A","n","a","l","y","t","i","c","s"," ","i","n","i","t","i","a","l","i","z","e","d"," ","s","u","c","c","e","s","s","f","u","l","l","y">> (* Vercel Web Analytics initialized successfully *))>>]
  ELSE [threw |-> FALSE, error |-> NoError, injected |-> FALSE,
        lines |-> <<WarnLine(<<"V","e","r","c","e","l"," ","A","n","a","l","y","t","i","c","s"," ","i","n","j","e","c","t"," ","f","u","n","c","t","i","o","n"," ","n","o","t"," ","f","o","u","n","d">> (* Vercel Analytics inject function not found *))>>]

\* the function handed to catch
catchHandler(error) ==
  [threw |-> FALSE, error |-> NoError,
   lines |-> <<WarnLine(<<"F","a","i","l","e","d"," ","t","o"," ","l","o","a","d"," ","V","e","r","c","e","l"," ","A","n","a","l","y","t","i","c","s",":"," ">> (* Failed to load Vercel Analytics:  *) \o error)>>]

\* the chain import(...).then(...).catch(...) once the import has ended:
\* the lines written, whether inject was called, and the rejection that
\* nothing handles
chain(o) ==
  LET t == IF o.kind = "rejected"
           THEN [threw |-> TRUE, error |-> ImportFailed, injected |-> FALSE, lines |-> <<>>]
           ELSE thenHandler(o)
      c == IF t.threw THEN catchHandler(t.error)
           ELSE [threw |-> FALSE, error |-> NoError, lines |-> <<>>]
  IN  [lines |-> t.lines \o c.lines,
       injected |-> t.injected,
       unhandled |-> IF c.threw THEN <<c.error>> ELSE <<>>]

Importing == [settled |-> FALSE, outcome |-> [kind |-> "pending", inject |-> "undefined"],
              injected |-> FALSE]

\* n calls of initVercelAnalytics, up to the import of each
initVercelAnalytics(n) ==
  /\ initCalls' = [initCalls EXCEPT ![Len(initCalls)] = @ + n]
  /\ imports' = imports \o [k \in 1..n |-> Importing]

\* the script is evaluated
RunScript ==
  /\ ~scriptRan
  /\ scriptRan' = TRUE
  /\ IF stillLoading(readyState)
     THEN /\ listeners' = Append(listeners, "initVercelAnalytics")
          /\ UNCHANGED <<initCalls, imports>>
     ELSE /\ initVercelAnalytics(1)
          /\ UNCHANGED listeners
  /\ UNCHANGED <<readyState, contentLoaded, pageConsole, pageErrors>>
  /\ UNCHANGED <<appVars, chatVars, pushVars, deployVars, n8nVars>>

\* the parser has finished
DocumentInteractive ==
  /\ readyState = "loading"
  /\ readyState' = "interactive"
  /\ UNCHANGED <<contentLoaded, scriptRan, listeners, initCalls, imports, pageConsole,
                 pageErrors>>
  /\ UNCHANGED <<appVars, chatVars, pushVars, deployVars, n8nVars>>

\* DOMContentLoaded is dispatched, once, to the listeners of the document
DOMContentLoaded ==
  /\ readyState = "interactive"
  /\ ~contentLoaded
  /\ contentLoaded' = TRUE
  /\ initVercelAnalytics(Len(listeners))
  /\ UNCHANGED <<readyState, scriptRan, listeners, pageConsole, pageErrors>>
  /\ UNCHANGED <<appVars, chatVars, pushVars, deployVars, n8nVars>>

\* the subresources have loaded
DocumentComplete ==
  /\ readyState = "interactive"
  /\ contentLoaded
  /\ readyState' = "complete"
  /\ UNCHANGED <<contentLoaded, scriptRan, listeners, initCalls, imports, pageConsole,
                 pageErrors>>
  /\ UNCHANGED <<appVars, chatVars, pushVars, deployVars, n8nVars>>

\* the import of call i ends and the chain runs
ImportSettles(i, o) ==
  /\ ~imports[i].settled
  /\ LET r == chain(o)
     IN  /\ imports' = [imports EXCEPT ![i] = [settled |-> TRUE, outcome |-> o,
                                               injected |-> r.injected]]
         /\ pageConsole' = pageConsole \o r.lines
         /\ pageErrors' = pageErrors \o r.unhandled
  /\ UNCHANGED <<readyState, contentLoaded, scriptRan, listeners, initCalls>>
  /\ UNCHANGED <<appVars, chatVars, pushVars, deployVars, n8nVars>>

\* the page is loaded again: a new document, and a new count of calls
Reload ==
  /\ Len(initCalls) < MaxLoads
  /\ readyState' = "loading"
  /\ contentLoaded' = FALSE
  /\ scriptRan' = FALSE
  /\ listeners' = <<>>
  /\ imports' = <<>>
  /\ pageConsole' = <<>>
  /\ pageErrors' = <<>>
  /\ initCalls' = Append(initCalls, 0)
  /\ UNCHANGED <<appVars, chatVars, pushVars, deployVars, n8nVars>>

AnalyticsInit ==
  /\ AppNotLoaded
  /\ ChatIdle
  /\ dom = AllElements
  /\ PushIdle
  /\ DeployIdle
  /\ N8NIdle
  /\ NewDocument
  /\ initCalls = <<0>>

AnalyticsNext ==
  \/ RunScript
  \/ DocumentInteractive
  \/ DOMContentLoaded
  \/ DocumentComplete
  \/ \E i \in DOMAIN imports, o \in ImportOutcomes : ImportSettles(i, o)
  \/ Reload

SpecAnalytics == AnalyticsInit /\ [][AnalyticsNext]_vars

----------------------------------------------------------------------------
(* Properties of getAccessToken *)

\* the call returned a value
TokenReturned(call) == call.done /\ ~call.result.threw

\* the call found a cached connection whose expires_at writes an instant
\* after the instant of the call
LaterExpiry(call) ==
  /\ call.cache.kind = "object"
  /\ \E t \in 0..9 : /\ call.cache.settings.expires_at = IsoString(t)
                      /\ t > call.now

\* C22: a call of getAccessToken that returns without a request to the
\* connector found a cached connection whose expires_at is strictly later
\* than the time of the call, and returns that connection's token; a call
\* that found no cached connection, no expires_at, or an expiry that is not
\* later than the time of the call returns only after a request to the
\* connector, and a call that found a later expiry sends none.
C22_CachedOnlyBeforeExpiry ==
  \A i \in DOMAIN tokenCalls :
    LET call == tokenCalls[i]
    IN  /\ (TokenReturned(call) /\ ~call.fetched) =>
             /\ LaterExpiry(call)
             /\ call.result.value = call.cache.settings.access_token
        /\ (TokenReturned(call) /\ ~LaterExpiry(call)) => call.fetched
        /\ LaterExpiry(call) => ~call.fetched

\* the second call came at 1 ms, found the connection of the first call
\* expiring at 2 ms, and returned its token without a request
C22_Witness ==
  /\ Len(tokenCalls) = 2
  /\ tokenCalls[2].now = 1
  /\ tokenCalls[2].cache.settings.expires_at = IsoString(2)
  /\ ~tokenCalls[2].fetched
  /\ tokenCalls[2].result = Returned(<<"g","h","p","_","a">> (* ghp_a *))

\* C23: every value a call of getAccessToken returns is a string that is not
\* empty, whichever path returned it, and a second call that comes before
\* the expiry of the connection the first call left returns the value the
\* first call returned.
C23_ReturnsToken ==
  /\ \A i \in DOMAIN tokenCalls :
       TokenReturned(tokenCalls[i]) =>
         /\ IsString(tokenCalls[i].result.value)
         /\ tokenCalls[i].result.value # <<>>
  /\ (/\ Len(tokenCalls) = 2
      /\ TokenReturned(tokenCalls[1])
      /\ TokenReturned(tokenCalls[2])
      /\ LaterExpiry(tokenCalls[2])) =>
        tokenCalls[2].result.value = tokenCalls[1].result.value

\* the body the connector answered with holds no connection, or a connection
\* with no token in either place
NoTokenIn(data) ==
  \/ data \in {NoItems, EmptyItems}
  \/ /\ data.kind = "object" /\ data.items = "array" /\ data.first.kind = "object"
     /\ Falsy(data.first.settings.access_token)
     /\ Falsy(data.first.settings.oauth)

Hint == <<"P","l","e","a","s","e"," ","s","e","t"," ","u","p"," ","G","i","t","H","u","b"," ","i","n","t","e","g","r","a","t","i","o","n"," ","i","n"," ","R","e","p","l","i","t"," ","f","i","r","s","t">> (* Please set up GitHub integration in Replit first *)

\* C24: a call of getAccessToken whose request was answered with no
\* connection (items missing or empty) or with a connection holding no token
\* throws "GitHub not connected"; the script has then written the hint as
\* its last line and exited with status 1, and no git push has been run.
C24_NotConnectedHint ==
  \A i \in DOMAIN tokenCalls :
    (/\ tokenCalls[i].done
     /\ tokenCalls[i].answer.kind = "data"
     /\ NoTokenIn(tokenCalls[i].answer.data)) =>
       /\ tokenCalls[i].result = Thrown(NotConnected)
       /\ console # <<>>
       /\ console[Len(console)] = ErrorLine(Hint)
       /\ exitCode = <<1>>
       /\ gitPushes = <<>>

----------------------------------------------------------------------------
(* Properties of deploy.sh *)

\* the script has echoed the line
Echoed(line) == \E k \in DOMAIN stdout : stdout[k] = line

\* C25: when the closing line has been echoed, a git push has been run in
\* this run of the script and every git push run has succeeded.
C25_ClosingLineOnlyAfterPush ==
  Echoed(AllPushed) =>
    /\ pushes # <<>>
    /\ \A k \in DOMAIN pushes : pushes[k].ok

----------------------------------------------------------------------------
(* Properties of the n8n client *)

PostsOf(c) == {k \in DOMAIN posts : posts[k].call = c}

\* the webhook each of the three named methods posts to
WebhookOf(method) ==
  CASE method = "generateContent" -> <<"/","w","e","b","h","o","o","k","/","c","o","n","t","e","n","t","-","g","e","n","e","r","a","t","o","r">> (* /webhook/content-generator *)
    [] method = "processRSS" -> <<"/","w","e","b","h","o","o","k","/","r","s","s","-","p","r","o","c","e","s","s","o","r">> (* /webhook/rss-processor *)
    [] method = "dataPipeline" -> <<"/","w","e","b","h","o","o","k","/","d","a","t","a","-","p","i","p","e","l","i","n","e">> (* /webhook/data-pipeline *)

\* C26: no call of triggerWorkflow, generateContent, processRSS or
\* dataPipeline is rejected; each call has handed exactly one POST to the
\* client, to /webhook/<workflowId>; a call whose POST succeeded is resolved
\* to success true with the response's data, and a call whose POST failed is
\* resolved to success false with the error's message.
C26_TriggerNeverRejects ==
  \A c \in DOMAIN workflowCalls :
    LET call == workflowCalls[c]
    IN  /\ call.settled.state # "rejected"
        /\ Cardinality(PostsOf(c)) = 1
        /\ \A k \in PostsOf(c) :
             /\ posts[k].url = IF call.method = "triggerWorkflow"
                               THEN <<"/","w","e","b","h","o","o","k","/">> (* /webhook/ *) \o ToStr(call.workflowId)
                               ELSE WebhookOf(call.method)
             /\ call.settled.state = "resolved" =>
                  /\ call.settled.value.success = posts[k].outcome.ok
                  /\ posts[k].outcome.ok =>
                       /\ call.settled.value.data = posts[k].outcome.data
                       /\ call.settled.value.error = Undefined
                  /\ ~posts[k].outcome.ok =>
                       /\ call.settled.value.error = posts[k].outcome.message
                       /\ call.settled.value.data = Undefined

\* two calls in flight together: the POST of generateContent timed out and
\* the POST of triggerWorkflow was answered
C26_Witness ==
  /\ Len(workflowCalls) = 2
  /\ workflowCalls[1].method = "generateContent"
  /\ workflowCalls[1].settled = Resolved(Failure(<<"t","i","m","e","o","u","t"," ","o","f"," ","3","0","0","0","0","m","s"," ","e","x","c","e","e","d","e","d">> (* timeout of 30000ms exceeded *)))
  /\ workflowCalls[2].method = "triggerWorkflow"
  /\ workflowCalls[2].settled = Resolved(Success(<<"q","u","e","u","e","d">> (* queued *)))

----------------------------------------------------------------------------
(* Properties of the analytics script *)

\* the calls of initVercelAnalytics in the current page load
CallsThisLoad == initCalls[Len(initCalls)]

\* C27: in no page load is initVercelAnalytics called more than once; it has
\* been called once when the script ran in a document that was no longer
\* loading, and once when the script ran in a loading document and
\* DOMContentLoaded has been dispatched since, and not before; an import that
\* was rejected, a module whose inject is missing or is no function, and an
\* inject that throws leave one console warning and nothing else, an inject
\* that returns leaves the one log line, and the document has no error and
\* no unhandled rejection.
C27_InitOncePerLoad ==
  /\ \A l \in DOMAIN initCalls : initCalls[l] <= 1
  /\ Len(imports) = CallsThisLoad
  /\ ~scriptRan => CallsThisLoad = 0
  /\ (scriptRan /\ listeners = <<>>) => CallsThisLoad = 1
  /\ (scriptRan /\ listeners # <<>>) => (CallsThisLoad = 1 <=> contentLoaded)
  /\ pageErrors = <<>>
  /\ Len(pageConsole) = Cardinality({i \in DOMAIN imports : imports[i].settled})
  /\ \A i \in DOMAIN imports :
       imports[i].settled =>
         IF imports[i].outcome.kind = "module" /\ imports[i].outcome.inject = "function"
         THEN /\ pageConsole[i].level = "log"
              /\ imports[i].injected
         ELSE /\ pageConsole[i].level = "warn"
              /\ imports[i].injected <=> imports[i].outcome.inject = "throws"

\* the second page load: the script ran while the document was loading,
\* DOMContentLoaded called initVercelAnalytics, and the import was rejected
C27_Witness ==
  /\ initCalls = <<1, 1>>
  /\ listeners # <<>>
  /\ contentLoaded
  /\ Len(imports) = 1
  /\ imports[1].settled
  /\ imports[1].outcome.kind = "rejected"
  /\ Len(pageConsole) = 1
  /\ pageConsole[1].level = "warn"

====
